---- MODULE Spec2Model ----
(***************************************************************************)
(* A model of achew's processing pipeline (backend/app).                   *)
(*                                                                         *)
(*   pl      the fields of the one ProcessingPipeline object               *)
(*   app     AppState.pipeline is set                                      *)
(*   co      the background stage coroutine running on the event loop      *)
(*   job     the worker-pool thread started by run_in_executor             *)
(*   procs   the ffmpeg child processes                                    *)
(*   rq      a restart / cancel request that is inside restart_at_step     *)
(*   progress_queue   AudioProcessingService._progress_queue               *)
(*   ws               AppState.websocket_connections and the broadcast     *)
(*                    tasks of the event loop                              *)
(*   disk    which kinds of files exist in the pipeline's temp directory   *)
(*   sent    the step-change broadcasts scheduled by the last step         *)
(*   ev      what the last step was                                        *)
(*                                                                         *)
(* The event loop runs one coroutine at a time until it suspends: every    *)
(* action of a coroutine is the code between two suspension points.  The   *)
(* worker thread and the child processes run concurrently with the loop.   *)
(***************************************************************************)
EXTENDS Integers, Sequences, FiniteSets, TLC

VARIABLES pl, app, co, job, procs, rq, progress_queue, disk, sent, ev, ws

vars == <<pl, app, co, job, procs, rq, progress_queue, disk, sent, ev, ws>>

----------------------------------------------------------------------------
(* Bounds of the model *)

MaxProcs == 2
MaxQueue == 1
MaxHistory == 3
MaxCoord == 4
MaxScanned == 2
MaxChapters == 2
MaxConsumers == 3
MaxCues == 2

(* The book: its duration, the silences the detector finds, the cue lists the user
   may select, and the cues of the existing cue source *)
Duration == 40
Silences == <<<<4, 6>>, <<12, 14>>>>
CueChoices == {<<0>>, <<6, 0>>}
SourceCues == <<0, 14>>

(* The cue lists of the existing cue sources of an Audiobookshelf book of two files:
   the chapters of the book, the Audnexus chapters of a longer edition, and the
   embedded chapters of the files, each file with chapters at 0 and 14 s of the
   file.  _fetch_abs_item takes each list as the server gives it *)
ExistingCueSources == {SourceCues, <<0, 14, 45>>, <<0, 14, 0, 14>>}

(* The cue lists of the runs without interruption *)
ScanCueChoices == {<<0, 10, 25, 35>>, <<0, 15, 30>>}

----------------------------------------------------------------------------
(* models/enums.py *)

IDLE == "idle"
SELECT_CUE_SOURCE == "select_cue_source"
AUDIO_ANALYSIS == "audio_analysis"
CUE_SET_SELECTION == "cue_set_selection"
AUDIO_EXTRACTION == "audio_extraction"
CONFIGURE_ASR == "configure_asr"
TRIMMING == "trimming"
ASR_PROCESSING == "asr_processing"
CHAPTER_EDITING == "chapter_editing"
REVIEWING == "reviewing"
COMPLETED == "completed"
AI_CLEANUP == "ai_cleanup"
VALIDATING == "validating"
VAD_PREP == "vad_prep"
VAD_ANALYSIS == "vad_analysis"
PARTIAL_SCAN_PREP == "partial_scan_prep"
PARTIAL_AUDIO_ANALYSIS == "partial_audio_analysis"
PARTIAL_VAD_ANALYSIS == "partial_vad_analysis"

(* models/enums.py Step: the members in the order of their definition, which is the
   order of the pipeline, and Step.ordinal *)
StepMembers ==
    <<"source_setup", "abs_setup", "local_setup", "llm_setup", IDLE, VALIDATING,
      "downloading", "file_prep", SELECT_CUE_SOURCE, AUDIO_ANALYSIS, VAD_PREP, VAD_ANALYSIS,
      PARTIAL_SCAN_PREP, PARTIAL_AUDIO_ANALYSIS, PARTIAL_VAD_ANALYSIS, CUE_SET_SELECTION,
      AUDIO_EXTRACTION, CONFIGURE_ASR, TRIMMING, ASR_PROCESSING, CHAPTER_EDITING, AI_CLEANUP,
      REVIEWING, COMPLETED>>

StepOrdinal(s) == (CHOOSE i \in 1..Len(StepMembers) : StepMembers[i] = s) - 1

RestartStep == <<IDLE, SELECT_CUE_SOURCE, CUE_SET_SELECTION, CONFIGURE_ASR, CHAPTER_EDITING>>

RestartOrdinal(s) == (CHOOSE i \in 1..Len(RestartStep) : RestartStep[i] = s) - 1

TaskKinds == {"extraction", "ai_cleanup", "transcription", "trimming", "download", "vad", "partial_scan"}

(* The value None of a field that otherwise holds a list of timestamps or of file
   names (files are named by timestamps): a value that is no such list *)
None == <<-1>>

----------------------------------------------------------------------------
(* ProcessingPipeline.__init__ *)

NoTasks == [k \in TaskKinds |-> "none"]

NewPipeline ==
    [ step |-> IDLE,
      chapters |-> <<>>,
      history_stack |-> <<>>,
      history_index |-> -1,
      cues |-> <<>>,
      segment_files |-> <<>>,
      trimmed_segment_files |-> <<>>,
      transcriptions |-> <<>>,
      detected_silences |-> <<>>,
      initial_chapter_selection_available |-> FALSE,
      normal_scanned_regions |-> <<>>,
      vad_scanned_regions |-> <<>>,
      partial_scan_temp_files |-> <<>>,
      running_processes |-> {},
      tasks |-> NoTasks,
      source_type |-> "abs",
      local_media_layout |-> "single_file",
      local_audio_files |-> <<>>,
      file_starts |-> None ]

NoCo == [kind |-> "none", pc |-> "none", interrupted |-> "no"]
NoJob == [kind |-> "none", pc |-> "none", proc |-> 0, held |-> 0, arg |-> <<>>, seg |-> 0,
          phase |-> "none", copy_only |-> FALSE, result |-> "none", cancelled |-> FALSE]
NoRq == [pc |-> "none", target |-> IDLE, by |-> "none", then |-> "none", via |-> "none",
         error |-> FALSE, arrived |-> IDLE]
FreeProc == [st |-> "free", rc |-> 0]

(* AppState.__init__: no WebSocket connection, and nothing to deliver *)
NoWs == [connections |-> <<>>, msgs |-> <<>>, copy |-> <<>>, pos |-> <<>>, ready |-> <<>>,
         pending |-> <<>>, delivered |-> <<>>, queue |-> <<>>, produced |-> 0, batch |-> 0]

(* A context: the pipeline fields and the step-change broadcasts scheduled so far *)
Ctx(p) == [p |-> p, out |-> <<>>]

(* AppState.broadcast_step_change, scheduled with asyncio.create_task *)
Broadcast(c, s, error) == [c EXCEPT !.out = Append(@, [step |-> s, error |-> error])]

(* ProcessingPipeline._notify_progress: sets the step, and schedules a step-change
   broadcast when the step differs from the old one *)
NotifyProgress(c, s) ==
    LET c1 == [c EXCEPT !.p.step = s]
    IN IF c.p.step # s THEN Broadcast(c1, s, FALSE) ELSE c1

(* AudioProcessingService._process_queued_progress: every queued entry goes to the
   progress callback, which is ProcessingPipeline._notify_progress *)
ProcessQueuedProgress(c, n, s) == IF n > 0 THEN NotifyProgress(c, s) ELSE c

(* Return codes of the tool *)
RcOk == 0
RcFail == 1
RcMissing == 254
RcSignal == 255
RcKilled == -9
RcTerm == -15

(* ProcessingPipeline.cleanup_segment_files / cleanup_trimmed_files: the list is
   reset only when it is truthy; the files are removed from the temp directory *)
CleanupSegmentFiles(p) ==
    [p EXCEPT !.segment_files = IF @ # None /\ @ # <<>> THEN <<>> ELSE @]

CleanupTrimmedFiles(p) ==
    [p EXCEPT !.trimmed_segment_files = IF @ # <<>> THEN <<>> ELSE @]

(* ProcessingPipeline.restart_at_step, the cleanup ladder (s is not idle) *)
RestartLadder(p, s) ==
    LET n == RestartOrdinal(s)
        p4 == IF n <= RestartOrdinal(CHAPTER_EDITING)
                THEN [p EXCEPT !.step = CHAPTER_EDITING] ELSE p
        p3 == IF n <= RestartOrdinal(CONFIGURE_ASR)
                THEN [CleanupTrimmedFiles(p4) EXCEPT
                        !.transcriptions = <<>>,
                        !.chapters = <<>>,
                        !.history_stack = <<>>,
                        !.history_index = -1,
                        !.step = CONFIGURE_ASR]
                ELSE p4
        p2 == IF n <= RestartOrdinal(CUE_SET_SELECTION)
                THEN [CleanupSegmentFiles(p3) EXCEPT
                        !.cues = <<>>,
                        !.step = CUE_SET_SELECTION]
                ELSE p3
        p1 == IF n <= RestartOrdinal(SELECT_CUE_SOURCE)
                THEN [p2 EXCEPT
                        !.detected_silences = <<>>,
                        !.normal_scanned_regions = <<>>,
                        !.vad_scanned_regions = <<>>,
                        !.initial_chapter_selection_available = FALSE,
                        !.step = SELECT_CUE_SOURCE]
                ELSE p2
    IN p1

(* The files the ladder removes from the temp directory *)
LadderDisk(d, s) ==
    (IF RestartOrdinal(s) <= RestartOrdinal(CONFIGURE_ASR) THEN d \ {"trimmed"} ELSE d)
        \ (IF RestartOrdinal(s) <= RestartOrdinal(CUE_SET_SELECTION) THEN {"segment"} ELSE {})

(* cancel_processing, the task handles.  A handle that is set is cancelled and
   cleared.  The extraction task and the trimming task are awaited: the task ends at
   its suspension point, and the coroutine that awaits it runs its handler before
   the requester goes on.  The transcription task is cancelled without an await. *)
CancelTasks(p) == [p EXCEPT !.tasks = NoTasks]

(* restart_at_step called by a stage whose worker thread has ended: nothing runs
   concurrently with it *)
RestartAtStep(c, s, error) ==
    LET p1 == [CancelTasks(c.p) EXCEPT !.running_processes = {}]
        c1 == [c EXCEPT !.p = RestartLadder(p1, s)]
    IN Broadcast(c1, c1.p.step, error)

----------------------------------------------------------------------------
(* The state after the application has started: no pipeline *)

Init ==
    /\ pl = NewPipeline
    /\ app = FALSE
    /\ co = NoCo
    /\ job = NoJob
    /\ procs = [i \in 1..MaxProcs |-> FreeProc]
    /\ rq = NoRq
    /\ progress_queue = 0
    /\ disk = {}
    /\ sent = <<>>
    /\ ev = [act |-> "init", arg |-> "none", by |-> "none", stale |-> "no"]
    /\ ws = NoWs

(* The event loop is not inside a request that runs without suspending *)
LoopFree == rq.pc = "none"

(* AppState.step: the pipeline's step, idle without a pipeline *)
AppStep == IF app THEN pl.step ELSE IDLE

(* What the last step was.  The delivery of the messages to the WebSocket
   connections is modelled apart, under SpecDelivery: the steps that record an
   event leave ws as it is *)
Event(a, x) == ev' = [act |-> a, arg |-> x, by |-> "none", stale |-> "no"] /\ ws' = ws

(* ProcessingPipeline.cleanup_all_files: the temp directory is removed with the
   files in it; the source files of a local book are not in it *)
TempFiles == {"segment", "trimmed"}

CleanupAllFiles(d) == d \ TempFiles

(* AppState.delete_pipeline: the pipeline object is dropped with its temp directory;
   what it still runs no longer touches the state of the application *)
DeletePipelineEffects ==
    /\ app' = FALSE
    /\ pl' = NewPipeline
    /\ co' = NoCo
    /\ job' = NoJob
    /\ procs' = [i \in 1..MaxProcs |-> FreeProc]
    /\ progress_queue' = 0
    /\ disk' = CleanupAllFiles(disk)

(* A create_pipeline that does not look for a pipeline in place: the fault C5
   excludes *)
CreatePipelineAlways ==
    /\ LoopFree
    /\ LET c == NotifyProgress(Ctx(NewPipeline), VALIDATING)
       IN /\ app' = TRUE
          /\ pl' = c.p
          /\ sent' = c.out
          /\ co' = [kind |-> "fetch", pc |-> "run", interrupted |-> "no"]
          /\ Event("created", "none")
          /\ UNCHANGED <<job, procs, rq, progress_queue, disk>>

(* routes/pipeline.py create_pipeline -> AppState.create_pipeline: a second pipeline
   is refused; otherwise the pipeline is created and the background fetch starts *)
CreatePipeline ==
    /\ LoopFree
    /\ IF app
         THEN /\ Event("create_refused", "none")
              /\ sent' = <<>>
              /\ UNCHANGED <<pl, app, co, job, procs, rq, progress_queue, disk>>
         ELSE LET c == NotifyProgress(Ctx(NewPipeline), VALIDATING)
              IN /\ app' = TRUE
                 /\ pl' = c.p
                 /\ sent' = c.out
                 /\ co' = [kind |-> "fetch", pc |-> "run", interrupted |-> "no"]
                 /\ Event("created", "none")
                 /\ UNCHANGED <<job, procs, rq, progress_queue, disk>>

(* ProcessingPipeline._fetch_local_item, its last step; start_processing then
   broadcasts select_cue_source itself *)
FetchDone ==
    /\ app /\ LoopFree /\ co.kind = "fetch"
    /\ LET c == Broadcast(NotifyProgress(Ctx(pl), SELECT_CUE_SOURCE), SELECT_CUE_SOURCE, FALSE)
       IN pl' = c.p /\ sent' = c.out
    /\ co' = NoCo
    /\ Event("fetched", "none")
    /\ UNCHANGED <<app, job, procs, rq, progress_queue, disk>>

(* routes/pipeline.py delete_pipeline *)
DeletePipeline ==
    /\ app /\ LoopFree
    /\ DeletePipelineEffects
    /\ sent' = <<>>
    /\ Event("deleted", "none")
    /\ UNCHANGED rq

----------------------------------------------------------------------------
(* The worker thread and the tool processes *)

FreeSlots == {i \in 1..MaxProcs : procs[i].st = "free"}

(* The step a queued progress entry of the running job carries *)
JobStep ==
    CASE job.kind = "detect" -> AUDIO_ANALYSIS
      [] job.kind = "extract" -> AUDIO_EXTRACTION
      [] OTHER -> TRIMMING

(* subprocess.Popen followed by self._running_processes.append(process) *)
ThreadSpawn ==
    /\ job.pc = "spawn"
    /\ \E i \in FreeSlots :
         /\ i = CHOOSE j \in FreeSlots : \A k \in FreeSlots : j <= k
         /\ procs' = [procs EXCEPT ![i] = [st |-> "running", rc |-> 0]]
         /\ pl' = [pl EXCEPT !.running_processes = @ \cup {i}]
         /\ job' = [job EXCEPT !.pc = "wait", !.proc = i]
    /\ disk' = CASE job.kind = "extract" -> disk \cup {"segment"}
                [] job.kind = "trim" /\ job.phase = "cut" -> disk \cup {"trimmed"}
                [] OTHER -> disk
    /\ sent' = <<>>
    /\ Event("spawn", job.kind)
    /\ UNCHANGED <<app, co, rq, progress_queue>>

(* The thread reads a progress line of the tool and appends to _progress_queue *)
ThreadProgress ==
    /\ job.pc = "wait" /\ job.kind \in {"detect", "extract"}
    /\ procs[job.proc].st = "running"
    /\ progress_queue < MaxQueue
    /\ progress_queue' = progress_queue + 1
    /\ sent' = <<>>
    /\ Event("progress_queued", job.kind)
    /\ UNCHANGED <<pl, app, co, job, procs, rq, disk>>

(* The tool ends by itself: success, failure, or missing input *)
ProcExit ==
    /\ \E i \in 1..MaxProcs, rc \in {RcOk, RcFail, RcMissing} :
         /\ procs[i].st = "running"
         /\ procs' = [procs EXCEPT ![i] = [st |-> "exited", rc |-> rc]]
    /\ sent' = <<>>
    /\ Event("proc_exit", "self")
    /\ UNCHANGED <<pl, app, co, job, rq, progress_queue, disk>>

(* AudioProcessingService._run_silence_detection after process.wait(): the result
   by return code, and the process leaves _running_processes *)
SilenceDetectionResult(rc) ==
    IF rc # 0
      THEN IF rc \in {254, 255} THEN "none" ELSE "empty"
      ELSE "list"

ThreadReapDetect ==
    /\ job.kind = "detect" /\ job.pc = "wait"
    /\ procs[job.proc].st = "exited"
    /\ job' = [job EXCEPT !.pc = "done", !.proc = 0,
                          !.result = SilenceDetectionResult(procs[job.proc].rc)]
    /\ pl' = [pl EXCEPT !.running_processes = @ \ {job.proc}]
    /\ procs' = [procs EXCEPT ![job.proc] = FreeProc]
    /\ sent' = <<>>
    /\ Event("reap", "detect")
    /\ UNCHANGED <<app, co, rq, progress_queue, disk>>

----------------------------------------------------------------------------
(* Smart detect: create_cues_from_source("smart_detect") -> _detect_cues ->
   AudioProcessingService.get_silence_boundaries *)

StageFree == co.kind = "none" /\ job.kind = "none"

(* Up to the first suspension in the polling loop of get_silence_boundaries *)
StartSmartDetect ==
    /\ app /\ LoopFree /\ AppStep = SELECT_CUE_SOURCE /\ StageFree
    /\ LET c == NotifyProgress(Ctx(pl), AUDIO_ANALYSIS)
       IN pl' = c.p /\ sent' = c.out
    /\ co' = [kind |-> "detect", pc |-> "poll", interrupted |-> "no"]
    /\ job' = [NoJob EXCEPT !.kind = "detect", !.pc = "spawn"]
    /\ progress_queue' = 0
    /\ Event("start", "detect")
    /\ UNCHANGED <<app, procs, rq, disk>>

(* One round of the polling loop: the queue is drained while the thread runs *)
StagePoll ==
    /\ LoopFree /\ co.pc = "poll" /\ job.pc # "done"
    /\ progress_queue > 0
    /\ LET c == ProcessQueuedProgress(Ctx(pl), progress_queue, JobStep)
       IN pl' = c.p /\ sent' = c.out
    /\ progress_queue' = 0
    /\ ws' = ws
    /\ ev' = [act |-> "poll", arg |-> co.kind, by |-> "none", stale |-> co.interrupted]
    /\ UNCHANGED <<app, co, job, procs, rq, disk>>

DetectedList(result) == IF result = "list" THEN Silences ELSE <<>>

(* The thread is done: the rest of get_silence_boundaries and of _detect_cues,
   with _transition_to_cue_selection *)
DetectCuesFinish(c, result, queued) ==
    IF result = "none"
      THEN c
      ELSE LET c1 == NotifyProgress(ProcessQueuedProgress(c, queued, AUDIO_ANALYSIS), AUDIO_ANALYSIS)
           IN IF c1.p.step # AUDIO_ANALYSIS
                THEN c1
                ELSE NotifyProgress(
                       [c1 EXCEPT !.p.detected_silences = DetectedList(result),
                                  !.p.normal_scanned_regions = <<<<0, Duration>>>>,
                                  !.p.initial_chapter_selection_available = TRUE],
                       CUE_SET_SELECTION)

StageDetectFinish ==
    /\ LoopFree /\ co.kind = "detect" /\ job.pc = "done"
    /\ LET c == DetectCuesFinish(Ctx(pl), job.result, progress_queue)
       IN pl' = c.p /\ sent' = c.out
    /\ co' = NoCo
    /\ job' = NoJob
    /\ progress_queue' = 0
    /\ ws' = ws
    /\ ev' = [act |-> "finish", arg |-> "detect", by |-> "none", stale |-> co.interrupted]
    /\ UNCHANGED <<app, procs, rq, disk>>

----------------------------------------------------------------------------
(* Segment extraction: select_cue_set, or create_cues_from_source with an existing
   cue source, -> extract_segments -> _extract_audio_segments ->
   AudioProcessingService.extract_segments *)

(* sorted(timestamps) *)
RECURSIVE Insert(_, _)
Insert(x, sq) ==
    IF sq = <<>> THEN <<x>>
    ELSE IF x <= Head(sq) THEN <<x>> \o sq
    ELSE <<Head(sq)>> \o Insert(x, Tail(sq))

RECURSIVE Sorted(_)
Sorted(sq) == IF sq = <<>> THEN <<>> ELSE Insert(Head(sq), Sorted(Tail(sq)))

(* ProcessingPipeline._filter_cues_by_duration *)
FilterCuesByDuration(cues) == SelectSeq(cues, LAMBDA cue : cue < Duration)

(* _extract_audio_segments up to the first suspension in the polling loop of
   AudioProcessingService.extract_segments *)
ExtractBegin(c) ==
    LET c1 == NotifyProgress(c, AUDIO_EXTRACTION)
    IN [c1 EXCEPT !.p.cues = FilterCuesByDuration(@)]

(* routes/pipeline.py select_cue_set -> ProcessingPipeline.select_cue_set *)
StartSelectCueSet ==
    /\ app /\ LoopFree /\ AppStep = CUE_SET_SELECTION /\ StageFree
    /\ \E timestamps \in CueChoices :
         LET c == ExtractBegin(Ctx([pl EXCEPT !.cues = Sorted(timestamps)]))
         IN /\ pl' = c.p
            /\ sent' = c.out
            /\ job' = [NoJob EXCEPT !.kind = "extract", !.pc = "spawn", !.arg = c.p.cues]
    /\ co' = [kind |-> "extract_sel", pc |-> "poll", interrupted |-> "no"]
    /\ progress_queue' = 0
    /\ Event("start", "extract_sel")
    /\ UNCHANGED <<app, procs, rq, disk>>

(* routes/pipeline.py select_cue_source -> create_cues_from_source with the id of
   an existing cue source: the extraction runs as the task _extraction_task *)
StartExistingSource ==
    /\ app /\ LoopFree /\ AppStep = SELECT_CUE_SOURCE /\ StageFree
    /\ LET c0 == NotifyProgress(Ctx(pl), AUDIO_EXTRACTION)
           c == ExtractBegin([c0 EXCEPT !.p.cues = SourceCues,
                                        !.p.tasks["extraction"] = "set"])
       IN /\ pl' = c.p
          /\ sent' = c.out
          /\ job' = [NoJob EXCEPT !.kind = "extract", !.pc = "spawn", !.arg = c.p.cues]
    /\ co' = [kind |-> "extract_src", pc |-> "poll", interrupted |-> "no"]
    /\ progress_queue' = 0
    /\ Event("start", "extract_src")
    /\ UNCHANGED <<app, procs, rq, disk>>

(* AudioProcessingService._run_segment_extraction after process.wait(): "list",
   "empty" for [], "retry" for the second run with WAV output, "error" for
   CalledProcessError *)
SegmentExtractionResult(rc, retried) ==
    IF rc # 0
      THEN IF rc \in {254, 255} THEN "empty"
           ELSE IF ~retried THEN "retry"
           ELSE "error"
      ELSE "list"

(* The thread after process.wait().  A failed run removes the segment files.  On a
   retry the first process stays in _running_processes until the second run has
   returned. *)
ThreadReapExtract ==
    /\ job.kind = "extract" /\ job.pc = "wait"
    /\ procs[job.proc].st = "exited"
    /\ LET r == SegmentExtractionResult(procs[job.proc].rc, job.held # 0)
           mine == {job.proc, job.held} \ {0}
       IN /\ disk' = IF procs[job.proc].rc # 0 THEN disk \ {"segment"} ELSE disk
          /\ IF r = "retry"
               THEN /\ job' = [job EXCEPT !.pc = "spawn", !.held = job.proc, !.proc = 0]
                    /\ UNCHANGED <<pl, procs>>
               ELSE /\ job' = [job EXCEPT !.pc = "done", !.proc = 0, !.held = 0, !.result = r]
                    /\ pl' = [pl EXCEPT !.running_processes = @ \ mine]
                    /\ procs' = [i \in 1..MaxProcs |-> IF i \in mine THEN FreeProc ELSE procs[i]]
    /\ sent' = <<>>
    /\ Event("reap", "extract")
    /\ UNCHANGED <<app, co, rq, progress_queue>>

(* The thread is done: the rest of AudioProcessingService.extract_segments, of
   _extract_audio_segments and of extract_segments.  segment_files is assigned the
   returned value before the step is looked at. *)
ExtractFinish(c, result, paths, queued) ==
    LET c1 == ProcessQueuedProgress(c, queued, AUDIO_EXTRACTION)
    IN IF result = "empty" \/ paths = <<>>
         THEN [c1 EXCEPT !.p.segment_files = None]
         ELSE LET c2 == [NotifyProgress(c1, AUDIO_EXTRACTION) EXCEPT !.p.segment_files = paths]
              IN IF c2.p.step # AUDIO_EXTRACTION
                   THEN c2
                   ELSE NotifyProgress(NotifyProgress(c2, AUDIO_EXTRACTION), CONFIGURE_ASR)

(* An exception of the thread: extract_segments restarts at cue_set_selection and
   re-raises; select_cue_set restarts at cue_set_selection again,
   create_cues_from_source restarts at select_cue_source *)
ExtractFailed(c, kind) ==
    RestartAtStep(RestartAtStep(c, CUE_SET_SELECTION, TRUE),
                  IF kind = "extract_src" THEN SELECT_CUE_SOURCE ELSE CUE_SET_SELECTION,
                  TRUE)

StageExtractFinish ==
    /\ LoopFree /\ co.kind \in {"extract_sel", "extract_src"} /\ job.pc = "done"
    /\ LET c == IF job.result = "error"
                  THEN ExtractFailed(Ctx(pl), co.kind)
                  ELSE ExtractFinish(Ctx(pl), job.result, job.arg, progress_queue)
       IN pl' = c.p /\ sent' = c.out
    /\ disk' = IF job.result = "error" THEN disk \ {"segment", "trimmed"} ELSE disk
    /\ co' = NoCo
    /\ job' = NoJob
    /\ progress_queue' = 0
    /\ ws' = ws
    /\ ev' = [act |-> "finish", arg |-> co.kind,
              by |-> IF job.result = "error" THEN "stage_restart" ELSE "none",
              stale |-> co.interrupted]
    /\ UNCHANGED <<app, procs, rq>>

(* The thread of a stage coroutine that was cancelled ends: its result is dropped *)
JobDiscard ==
    /\ job.pc = "done" /\ co.kind = "none"
    /\ job' = NoJob
    /\ sent' = <<>>
    /\ Event("discard", job.kind)
    /\ UNCHANGED <<pl, app, co, procs, rq, progress_queue, disk>>

----------------------------------------------------------------------------
(* Trimming: proceed_with_transcription -> _create_trimmed_segments ->
   AudioProcessingService.trim_segments (the task _trimming_task) with the thread
   _trim_segments *)

(* routes/pipeline.py configure_asr, action "transcribe", up to the first
   suspension in the polling loop of trim_segments *)
StartTranscription ==
    /\ app /\ LoopFree /\ AppStep = CONFIGURE_ASR /\ StageFree
    /\ LET c == NotifyProgress(NotifyProgress(Ctx(pl), ASR_PROCESSING), TRIMMING)
       IN /\ pl' = [c.p EXCEPT !.tasks["trimming"] = "set"]
          /\ sent' = c.out
    /\ \E copy_only \in BOOLEAN :
         job' = [NoJob EXCEPT !.kind = "trim", !.pc = "next", !.seg = 1,
                              !.arg = pl.segment_files, !.copy_only = copy_only]
    /\ co' = [kind |-> "transcribe", pc |-> "poll", interrupted |-> "no"]
    /\ progress_queue' = 0
    /\ Event("start", "transcribe")
    /\ UNCHANGED <<app, procs, rq, disk>>

(* _trim_segments, the check at the head of the loop: a process of the list that
   ended with a cancellation code *)
TrimCancelled(p, ps) ==
    \E i \in p.running_processes :
        ps[i].st = "exited" /\ ps[i].rc \in {RcTerm, RcMissing, RcSignal}

QueueAppend(n) == IF n < MaxQueue THEN n + 1 ELSE n

(* _trim_segments, the head of one round of the loop over the segment files *)
ThreadTrimNext ==
    /\ job.kind = "trim" /\ job.pc = "next"
    /\ IF job.arg = None
         THEN job' = [job EXCEPT !.pc = "done", !.result = "error"] /\ UNCHANGED disk
         ELSE IF job.seg > Len(job.arg)
         THEN job' = [job EXCEPT !.pc = "done", !.result = "list"] /\ UNCHANGED disk
         ELSE IF TrimCancelled(pl, procs)
         THEN job' = [job EXCEPT !.pc = "done", !.result = "empty"] /\ disk' = disk \ {"trimmed"}
         ELSE IF job.copy_only
         THEN job' = [job EXCEPT !.seg = @ + 1] /\ disk' = disk \cup {"trimmed"}
         ELSE job' = [job EXCEPT !.pc = "spawn", !.phase = "sil"] /\ UNCHANGED disk
    /\ sent' = <<>>
    /\ Event("trim_next", "trim")
    /\ UNCHANGED <<pl, app, co, procs, rq, progress_queue>>

(* _sync_get_silence_boundaries after process.wait(): None for a cancelled or
   failed run *)
SyncSilenceResult(rc) ==
    IF rc \in {-15, 254, 255} THEN "none"
    ELSE IF rc # 0 THEN "none"
    ELSE "list"

(* The trim command after process.wait() *)
TrimCommandResult(rc) ==
    IF rc \in {-15, 254, 255} THEN "cancelled"
    ELSE IF rc # 0 THEN "copy"
    ELSE "trimmed"

(* The thread after process.wait() of the silence detection of one segment, or of
   its trim command.  Without a silence to cut at, the segment is copied. *)
ThreadReapTrim ==
    /\ job.kind = "trim" /\ job.pc = "wait"
    /\ procs[job.proc].st = "exited"
    /\ pl' = [pl EXCEPT !.running_processes = @ \ {job.proc}]
    /\ procs' = [procs EXCEPT ![job.proc] = FreeProc]
    /\ LET rc == procs[job.proc].rc
       IN IF job.phase = "sil"
            THEN \E found \in BOOLEAN :
                   IF SyncSilenceResult(rc) = "list" /\ found
                     THEN /\ job' = [job EXCEPT !.pc = "spawn", !.phase = "cut", !.proc = 0]
                          /\ UNCHANGED <<disk, progress_queue>>
                     ELSE /\ job' = [job EXCEPT !.pc = "next", !.phase = "none", !.proc = 0,
                                                !.seg = @ + 1]
                          /\ disk' = disk \cup {"trimmed"}
                          /\ progress_queue' = QueueAppend(progress_queue)
            ELSE CASE TrimCommandResult(rc) = "cancelled" ->
                        /\ job' = [job EXCEPT !.pc = "done", !.phase = "none", !.proc = 0,
                                              !.result = "empty"]
                        /\ disk' = disk \ {"trimmed"}
                        /\ UNCHANGED progress_queue
                   [] TrimCommandResult(rc) = "copy" ->
                        /\ job' = [job EXCEPT !.pc = "next", !.phase = "none", !.proc = 0,
                                              !.seg = @ + 1]
                        /\ disk' = disk \cup {"trimmed"}
                        /\ UNCHANGED progress_queue
                   [] OTHER ->
                        /\ job' = [job EXCEPT !.pc = "next", !.phase = "none", !.proc = 0,
                                              !.seg = @ + 1]
                        /\ disk' = disk \cup {"trimmed"}
                        /\ progress_queue' = QueueAppend(progress_queue)
    /\ sent' = <<>>
    /\ Event("reap", "trim")
    /\ UNCHANGED <<app, co, rq>>

(* The thread is done while the trimming task polls: the rest of trim_segments and
   of _create_trimmed_segments, then _transcribe_segments up to its await of the
   transcription thread.  An empty result makes trim_segments raise CancelledError,
   on which proceed_with_transcription restarts at configure_asr; on another
   exception _create_trimmed_segments and proceed_with_transcription both do. *)
TrimFinish(c, result, paths, queued) ==
    IF result = "error"
      THEN RestartAtStep(RestartAtStep(c, CONFIGURE_ASR, TRUE), CONFIGURE_ASR, TRUE)
      ELSE LET c1 == ProcessQueuedProgress(c, queued, TRIMMING)
           IN IF result = "empty" \/ paths = <<>>
                THEN RestartAtStep(c1, CONFIGURE_ASR, FALSE)
                ELSE LET c2 == NotifyProgress(c1, TRIMMING)
                         c3 == [c2 EXCEPT !.p.tasks["trimming"] = "none",
                                          !.p.trimmed_segment_files = paths]
                     IN NotifyProgress(NotifyProgress(c3, ASR_PROCESSING), ASR_PROCESSING)

TrimContinues(result, paths) == result = "list" /\ paths # <<>>

StageTrimFinish ==
    /\ LoopFree /\ co.kind = "transcribe" /\ co.pc = "poll" /\ job.pc = "done"
    /\ LET c == TrimFinish(Ctx(pl), job.result, job.arg, progress_queue)
       IN pl' = c.p /\ sent' = c.out
    /\ IF TrimContinues(job.result, job.arg)
         THEN /\ co' = [co EXCEPT !.pc = "asr"]
              /\ job' = [NoJob EXCEPT !.kind = "asr", !.pc = "start"]
              /\ UNCHANGED disk
         ELSE /\ co' = NoCo
              /\ job' = NoJob
              /\ disk' = disk \ {"trimmed"}
    /\ progress_queue' = 0
    /\ ws' = ws
    /\ ev' = [act |-> "finish", arg |-> "trim",
              by |-> IF ~TrimContinues(job.result, job.arg) THEN "stage_restart" ELSE "none",
              stale |-> co.interrupted]
    /\ UNCHANGED <<app, procs, rq>>

----------------------------------------------------------------------------
(* Transcription: _transcribe_segments with the thread run_transcription, then
   _create_initial_chapters *)

(* The thread creates the transcription task in its own event loop and stores it
   in the pipeline's _transcription_task *)
ThreadAsrStart ==
    /\ job.kind = "asr" /\ job.pc = "start"
    /\ pl' = [pl EXCEPT !.tasks["transcription"] = "set"]
    /\ job' = [job EXCEPT !.pc = "run", !.arg = pl.trimmed_segment_files]
    /\ sent' = <<>>
    /\ Event("asr_start", "asr")
    /\ UNCHANGED <<app, co, procs, rq, progress_queue, disk>>

(* The title the recogniser gives the segment cut at timestamp t; 0 is the empty
   title *)
Title(t) == t + 1

(* The transcription ends.  A cancel() of the task from the main thread takes
   effect or comes too late.  The handle is not cleared: the thread assigns
   self.transcription_task *)
ThreadAsrDone ==
    /\ job.kind = "asr" /\ job.pc = "run"
    /\ \E r \in IF job.result = "cancel_requested" THEN {"cancelled", "list"} ELSE {"list"} :
         job' = [job EXCEPT !.pc = "done", !.result = r]
    /\ sent' = <<>>
    /\ Event("asr_done", "asr")
    /\ UNCHANGED <<pl, app, co, procs, rq, progress_queue, disk>>

Transcribe(files) == [i \in 1..Len(files) |-> Title(files[i])]

(* ChapterData(timestamp, asr_title, current_title, selected); the chapter's id is
   modelled by the timestamp it was created with *)
ChapterData(t, title) ==
    [id |-> t, timestamp |-> t, current_title |-> title, selected |-> TRUE, deleted |-> FALSE]

(* ProcessingPipeline._create_initial_chapters *)
CreateInitialChapters(c) ==
    IF c.p.step # ASR_PROCESSING
      THEN c
      ELSE LET c1 == NotifyProgress(c, CHAPTER_EDITING)
               ch == [i \in 1..Len(c1.p.cues) |->
                        ChapterData(c1.p.cues[i],
                                    IF i <= Len(c1.p.transcriptions)
                                      THEN c1.p.transcriptions[i] ELSE 0)]
           IN NotifyProgress([c1 EXCEPT !.p.chapters = ch, !.p.step = CHAPTER_EDITING],
                             CHAPTER_EDITING)

(* The rest of _transcribe_segments and of proceed_with_transcription when the
   recogniser has returned the list titles.  transcriptions is assigned the
   returned value before the step is looked at. *)
TranscriptionFinish(c, titles) ==
    LET c1 == [c EXCEPT !.p.transcriptions = titles]
    IN IF c1.p.step # ASR_PROCESSING
         THEN c1
         ELSE CreateInitialChapters(NotifyProgress(c1, ASR_PROCESSING))

(* The rest of _transcribe_segments and of proceed_with_transcription *)
AsrFinish(c, result, files) ==
    IF result = "cancelled"
      THEN RestartAtStep(c, CONFIGURE_ASR, FALSE)
      ELSE TranscriptionFinish(c, Transcribe(files))

StageAsrFinish ==
    /\ LoopFree /\ co.kind = "transcribe" /\ co.pc = "asr" /\ job.pc = "done"
    /\ LET c == AsrFinish(Ctx(pl), job.result, job.arg)
       IN pl' = c.p /\ sent' = c.out
    /\ disk' = IF job.result = "cancelled" THEN disk \ {"trimmed"} ELSE disk
    /\ co' = NoCo
    /\ job' = NoJob
    /\ ws' = ws
    /\ ev' = [act |-> "finish", arg |-> "asr",
              by |-> IF job.result = "cancelled" THEN "stage_restart" ELSE "none",
              stale |-> co.interrupted]
    /\ UNCHANGED <<app, procs, rq, progress_queue>>

(* ProcessingPipeline.skip_transcription: chapters with empty titles.  With
   segment_files None the first len(self.segment_files) raises, and the handler
   restarts at configure_asr. *)
SkipTranscription(c) ==
    IF c.p.cues # <<>> /\ c.p.segment_files = None
      THEN RestartAtStep(c, CONFIGURE_ASR, TRUE)
      ELSE NotifyProgress(
             [c EXCEPT !.p.chapters = [i \in 1..Len(c.p.cues) |-> ChapterData(c.p.cues[i], 0)],
                       !.p.transcriptions = [i \in 1..Len(c.p.cues) |-> 0]],
             CHAPTER_EDITING)

(* routes/pipeline.py configure_asr, action "skip" *)
StartSkipTranscription ==
    /\ app /\ LoopFree /\ AppStep = CONFIGURE_ASR /\ StageFree
    /\ LET c == SkipTranscription(Ctx(pl))
       IN pl' = c.p /\ sent' = c.out
    /\ disk' = IF pl.cues # <<>> /\ pl.segment_files = None THEN disk \ {"trimmed"} ELSE disk
    /\ Event("skip", "transcribe")
    /\ UNCHANGED <<app, co, job, procs, rq, progress_queue>>

----------------------------------------------------------------------------
(* restart_at_step and cancel_processing *)

(* What process.terminate() followed by process.wait(timeout=2) and, on timeout,
   process.kill() leaves as the return code: the tool's own exit on the signal, or
   the kill *)
TermCodes == {RcSignal, RcKilled}

(* cancel_processing, the loop over _running_processes: every process that is
   still running is terminated (or killed); rcs gives the outcome per process *)
TerminateProcesses(ps, running, rcs) ==
    [i \in 1..MaxProcs |->
        IF i \in running /\ ps[i].st = "running"
          THEN [st |-> "exited", rc |-> rcs[i]]
          ELSE ps[i]]

(* routes/pipeline.py cancel_step: the restart step chosen from the current step;
   "delete" for a pipeline that is validating or downloading *)
CancelTarget(p) ==
    CASE p.step = VALIDATING -> "delete"
      [] p.step = AUDIO_ANALYSIS -> SELECT_CUE_SOURCE
      [] p.step = AUDIO_EXTRACTION ->
            IF p.initial_chapter_selection_available THEN CUE_SET_SELECTION ELSE SELECT_CUE_SOURCE
      [] p.step \in {TRIMMING, ASR_PROCESSING} -> CONFIGURE_ASR
      [] OTHER -> SELECT_CUE_SOURCE

(* The stage coroutine after the handles have been cancelled *)
CoAfterCancel(p, c) ==
    CASE c.kind = "extract_src" /\ p.tasks["extraction"] = "set" -> NoCo
      [] c.kind = "transcribe" /\ c.pc = "poll" /\ p.tasks["trimming"] = "set" ->
            [c EXCEPT !.pc = "restarting"]
      [] OTHER -> c

(* The worker thread after the handles have been cancelled: cancel() reaches the
   transcription task inside the thread's own event loop *)
JobAfterCancel(p, j) ==
    IF j.kind = "asr" /\ p.tasks["transcription"] = "set"
      THEN [j EXCEPT !.result = "cancel_requested"]
      ELSE j

(* restart_at_step(s) up to the loop over the processes.  When the trimming task
   was cancelled, proceed_with_transcription catches CancelledError and calls
   restart_at_step(configure_asr) before the requester resumes. *)
RestartBegin(s, via) ==
    /\ pl' = CancelTasks(pl)
    /\ co' = CoAfterCancel(pl, co)
    /\ job' = JobAfterCancel(pl, job)
    /\ rq' = IF CoAfterCancel(pl, co).pc = "restarting"
               THEN [pc |-> "procs", target |-> CONFIGURE_ASR, by |-> "stage",
                     then |-> s, via |-> via, error |-> FALSE, arrived |-> pl.step]
               ELSE [pc |-> "procs", target |-> s, by |-> via,
                     then |-> "none", via |-> via, error |-> FALSE, arrived |-> pl.step]
    /\ sent' = <<>>
    /\ Event("restart_begin", s)
    /\ UNCHANGED <<app, procs, progress_queue, disk>>

(* routes/pipeline.py restart_pipeline: any restart step, whatever the current step *)
RestartRequest ==
    /\ app /\ LoopFree
    /\ \E i \in 1..Len(RestartStep) : RestartBegin(RestartStep[i], "restart")

CancelRequest ==
    /\ app /\ LoopFree
    /\ IF CancelTarget(pl) = "delete"
         THEN /\ DeletePipelineEffects
              /\ sent' = <<>>
              /\ Event("deleted", "cancel")
              /\ UNCHANGED rq
         ELSE RestartBegin(CancelTarget(pl), "cancel")

RestartTerminate ==
    /\ rq.pc = "procs"
    /\ \E rcs \in [1..MaxProcs -> TermCodes] :
         procs' = TerminateProcesses(procs, pl.running_processes, rcs)
    /\ job' = IF job.proc \in pl.running_processes /\ procs[job.proc].st = "running"
                THEN [job EXCEPT !.cancelled = TRUE] ELSE job
    /\ rq' = [rq EXCEPT !.pc = "clear"]
    /\ sent' = <<>>
    /\ Event("restart_terminate", rq.target)
    /\ UNCHANGED <<pl, app, co, progress_queue, disk>>

(* self._running_processes.clear() *)
RestartClear ==
    /\ rq.pc = "clear"
    /\ pl' = [pl EXCEPT !.running_processes = {}]
    /\ rq' = [rq EXCEPT !.pc = "ladder"]
    /\ sent' = <<>>
    /\ Event("restart_clear", rq.target)
    /\ UNCHANGED <<app, co, job, procs, progress_queue, disk>>

(* restart_at_step after cancel_processing has returned.  A restart called by the
   stage ends the stage; the requester that cancelled it then resumes. *)
RestartFinish ==
    /\ rq.pc = "ladder"
    /\ IF rq.target = IDLE
         THEN /\ DeletePipelineEffects
              /\ sent' = <<[step |-> IDLE, error |-> rq.error]>>
         ELSE /\ LET c == Ctx(RestartLadder(pl, rq.target))
                 IN /\ pl' = c.p
                    /\ sent' = Broadcast(c, c.p.step, rq.error).out
              /\ disk' = LadderDisk(disk, rq.target)
              /\ co' = IF rq.by = "stage" THEN NoCo
                       ELSE IF co.kind = "none" THEN co
                       ELSE [co EXCEPT !.interrupted = IF @ = "no" THEN rq.by ELSE "many"]
              /\ UNCHANGED <<app, job, procs, progress_queue>>
    /\ rq' = IF rq.then = "none" THEN NoRq
             ELSE [pc |-> "procs", target |-> rq.then, by |-> rq.via,
                   then |-> "none", via |-> rq.via, error |-> FALSE,
                   arrived |-> rq.arrived]
    /\ ws' = ws
    /\ ev' = [act |-> "restart_done", arg |-> rq.target, by |-> rq.by, stale |-> "no"]

----------------------------------------------------------------------------

Next ==
    \/ CreatePipeline
    \/ FetchDone
    \/ DeletePipeline
    \/ StartSmartDetect
    \/ ThreadSpawn
    \/ ThreadProgress
    \/ ProcExit
    \/ ThreadReapDetect
    \/ StagePoll
    \/ StageDetectFinish
    \/ StartSelectCueSet
    \/ StartExistingSource
    \/ ThreadReapExtract
    \/ StageExtractFinish
    \/ JobDiscard
    \/ StartTranscription
    \/ ThreadTrimNext
    \/ ThreadReapTrim
    \/ StageTrimFinish
    \/ ThreadAsrStart
    \/ ThreadAsrDone
    \/ StageAsrFinish
    \/ StartSkipTranscription
    \/ RestartRequest
    \/ CancelRequest
    \/ RestartTerminate
    \/ RestartClear
    \/ RestartFinish

Spec == Init /\ [][Next]_vars

----------------------------------------------------------------------------
(* Coverage tracking and partial scans *)

Max(a, b) == IF a >= b THEN a ELSE b
Min(a, b) == IF a <= b THEN a ELSE b

(* sorted(regions, key=lambda r: r[0]): a stable sort by interval start *)
RECURSIVE InsertRegion(_, _)
InsertRegion(r, sq) ==
    IF sq = <<>> THEN <<r>>
    ELSE IF r[1] <= Head(sq)[1] THEN <<r>> \o sq
    ELSE <<Head(sq)>> \o InsertRegion(r, Tail(sq))

RECURSIVE SortRegions(_)
SortRegions(regions) ==
    IF regions = <<>> THEN <<>> ELSE InsertRegion(Head(regions), SortRegions(Tail(regions)))

(* The loop body of _merge_regions with < for <=: a range that starts where the
   last one ends is appended, not merged *)
MergeStepStrict(merged, r) ==
    LET last == merged[Len(merged)]
    IN IF r[1] < last[2]
         THEN [merged EXCEPT ![Len(merged)] = <<last[1], Max(last[2], r[2])>>]
         ELSE Append(merged, r)

(* The loop body of _merge_regions: the interval r against the last interval of
   merged, merged when it starts inside or at the end of that interval *)
MergeStep(merged, r) ==
    LET last == merged[Len(merged)]
    IN IF r[1] <= last[2]
         THEN [merged EXCEPT ![Len(merged)] = <<last[1], Max(last[2], r[2])>>]
         ELSE Append(merged, r)

RECURSIVE MergeLoop(_, _)
MergeLoop(merged, rest) ==
    IF rest = <<>> THEN merged ELSE MergeLoop(MergeStep(merged, Head(rest)), Tail(rest))

(* ProcessingPipeline._merge_regions *)
MergeRegions(regions) ==
    IF regions = <<>> THEN <<>>
    ELSE LET sorted_regions == SortRegions(regions)
         IN MergeLoop(<<Head(sorted_regions)>>, Tail(sorted_regions))

(* The loop of _get_uncovered_subregions with current = r_end for
   current = max(current, r_end) *)
RECURSIVE UncoveredLoopNoMax(_, _, _, _)
UncoveredLoopNoMax(merged, current, end, uncovered) ==
    IF merged = <<>> \/ Head(merged)[1] >= end
      THEN IF current < end THEN Append(uncovered, <<current, end>>) ELSE uncovered
      ELSE UncoveredLoopNoMax(Tail(merged), Head(merged)[2], end,
                              IF Head(merged)[1] > current
                                THEN Append(uncovered, <<current, Min(Head(merged)[1], end)>>)
                                ELSE uncovered)

(* The loop of _get_uncovered_subregions over the merged regions, and what follows
   it *)
RECURSIVE UncoveredLoop(_, _, _, _)
UncoveredLoop(merged, current, end, uncovered) ==
    IF merged = <<>> \/ Head(merged)[1] >= end
      THEN IF current < end THEN Append(uncovered, <<current, end>>) ELSE uncovered
      ELSE UncoveredLoop(Tail(merged), Max(current, Head(merged)[2]), end,
                         IF Head(merged)[1] > current
                           THEN Append(uncovered, <<current, Min(Head(merged)[1], end)>>)
                           ELSE uncovered)

(* ProcessingPipeline._get_uncovered_subregions *)
GetUncoveredSubregions(scanned, start, end) ==
    IF scanned = <<>> THEN <<<<start, end>>>>
    ELSE UncoveredLoop(MergeRegions(scanned), start, end, <<>>)

(* run_partial_scan, step 1: the chapters that are not deleted, by timestamp, and
   the region from the chapter to the next one or to the end of the book *)
RECURSIVE SortChapters(_)
SortChapters(chs) ==
    IF chs = <<>> THEN <<>>
    ELSE LET rest == SortChapters(Tail(chs))
             before == SelectSeq(rest, LAMBDA ch : ch.timestamp < Head(chs).timestamp)
             after == SelectSeq(rest, LAMBDA ch : ch.timestamp >= Head(chs).timestamp)
         IN before \o <<Head(chs)>> \o after

ActiveChapters(p) == SortChapters(SelectSeq(p.chapters, LAMBDA ch : ~ch.deleted))

ScanRegion(p, i) ==
    LET active == ActiveChapters(p)
    IN <<active[i].timestamp, IF i + 1 <= Len(active) THEN active[i + 1].timestamp ELSE Duration>>

(* Step 2 with the map of the scan's own type alone for both types *)
AlreadyScannedOwnType(p, scan_type) ==
    IF scan_type = "vad"
      THEN MergeRegions(p.vad_scanned_regions)
      ELSE MergeRegions(p.normal_scanned_regions)

(* Step 2: what the scans of this type have already covered *)
AlreadyScanned(p, scan_type) ==
    IF scan_type = "vad"
      THEN MergeRegions(p.vad_scanned_regions)
      ELSE MergeRegions(p.normal_scanned_regions \o p.vad_scanned_regions)

(* Step 3: the uncovered sub-regions, each widened by expand seconds and merged *)
Expand == 5

ExtractionSegments(uncovered) ==
    MergeRegions([i \in 1..Len(uncovered) |->
                    <<Max(0, uncovered[i][1] - Expand), Min(Duration, uncovered[i][2] + Expand)>>])

RECURSIVE TotalLength(_)
TotalLength(segs) == IF segs = <<>> THEN 0 ELSE (Head(segs)[2] - Head(segs)[1]) + TotalLength(Tail(segs))

(* Step 4: total_extraction / book_dur >= 0.8 *)
UseOriginalFile(segs) == 10 * TotalLength(segs) >= 8 * Duration

(* Step 7 with a threshold of 1.75 s *)
IsDuplicateWide(silences, s) ==
    \E i \in 1..Len(silences) :
        LET d == IF silences[i][1] >= s[1] THEN silences[i][1] - s[1] ELSE s[1] - silences[i][1]
        IN 4 * d < 7

(* Step 7: a new silence is dropped when an existing one starts less than 0.75 s
   from it; the list is sorted by start afterwards *)
IsDuplicate(silences, s) ==
    \E i \in 1..Len(silences) :
        LET d == IF silences[i][1] >= s[1] THEN silences[i][1] - s[1] ELSE s[1] - silences[i][1]
        IN 4 * d < 3

RECURSIVE MergeSilences(_, _)
MergeSilences(silences, new_silences) ==
    IF new_silences = <<>> THEN silences
    ELSE MergeSilences(IF IsDuplicate(silences, Head(new_silences))
                         THEN silences ELSE Append(silences, Head(new_silences)),
                       Tail(new_silences))

(* Step 8 recording no range *)
ScannedRangesNone(segs) == <<>>

(* Step 8: the ranges the scan has covered *)
ScannedRanges(segs) == IF UseOriginalFile(segs) THEN <<<<0, Duration>>>> ELSE segs

(* The silences of the book that lie in the scanned files, on the global timeline *)
SilencesIn(ranges) ==
    SelectSeq(Silences, LAMBDA s : \E k \in 1..Len(ranges) :
                                      ranges[k][1] <= s[1] /\ s[2] <= ranges[k][2])

(* _do_partial_scan for the i-th active chapter, run to its end; failed is an
   exception of the extraction or of the scan *)
PartialScan(c, i, scan_type, failed) ==
    LET region == ScanRegion(c.p, i)
        uncovered == GetUncoveredSubregions(AlreadyScanned(c.p, scan_type), region[1], region[2])
        segs == ExtractionSegments(uncovered)
        new_silences == SilencesIn(ScannedRanges(segs))
        c1 == NotifyProgress(c, PARTIAL_SCAN_PREP)
        c2 == NotifyProgress(c1, IF scan_type = "vad" THEN PARTIAL_VAD_ANALYSIS
                                 ELSE PARTIAL_AUDIO_ANALYSIS)
        c3 == [c2 EXCEPT !.p.detected_silences = SortRegions(MergeSilences(@, new_silences))]
        c4 == IF scan_type = "vad"
                THEN [c3 EXCEPT !.p.vad_scanned_regions = MergeRegions(@ \o ScannedRanges(segs))]
                ELSE [c3 EXCEPT !.p.normal_scanned_regions = MergeRegions(@ \o ScannedRanges(segs))]
    IN IF uncovered = <<>> THEN c
       ELSE IF failed THEN Broadcast([c1 EXCEPT !.p.step = CHAPTER_EDITING], CHAPTER_EDITING, TRUE)
       ELSE Broadcast([c4 EXCEPT !.p.step = CHAPTER_EDITING], CHAPTER_EDITING, FALSE)

(* Steps 5 and 6: the tool runs of the scan of the i-th active chapter: none
   without an uncovered sub-region, one scan of the original file, or one
   extraction and one scan per extraction segment *)
ScanTools(p, i, scan_type) ==
    LET region == ScanRegion(p, i)
        uncovered == GetUncoveredSubregions(AlreadyScanned(p, scan_type), region[1], region[2])
        segs == ExtractionSegments(uncovered)
    IN IF uncovered = <<>> THEN 0
       ELSE IF UseOriginalFile(segs) THEN 1
       ELSE 2 * Len(segs)

(* run_partial_scan(chapter_id, scan_type) from chapter editing, run to its end; ev
   keeps the chapter, the number of tool runs, and whether the scan failed *)
RunPartialScan ==
    /\ app /\ LoopFree /\ StageFree /\ pl.step = CHAPTER_EDITING
    /\ \E i \in 1..Len(ActiveChapters(pl)), scan_type \in {"normal", "vad"}, failed \in BOOLEAN :
         LET c == PartialScan(Ctx(pl), i, scan_type, failed)
         IN /\ pl' = c.p
            /\ sent' = c.out
            /\ ws' = ws
            /\ ev' = [act |-> "partial_scan", arg |-> scan_type, by |-> "none", stale |-> "no",
                      chapter |-> i, tools |-> ScanTools(pl, i, scan_type),
                      failed |-> failed /\ ScanTools(pl, i, scan_type) > 0]
    /\ UNCHANGED <<app, co, job, procs, rq, progress_queue, disk>>

(* create_cues_from_source("smart_detect") run to its end without interruption *)
RunSmartDetect ==
    /\ app /\ LoopFree /\ StageFree /\ pl.step = SELECT_CUE_SOURCE
    /\ LET c == DetectCuesFinish(NotifyProgress(Ctx(pl), AUDIO_ANALYSIS), "list", 0)
       IN pl' = c.p /\ sent' = c.out
    /\ Event("run", "detect")
    /\ UNCHANGED <<app, co, job, procs, rq, progress_queue, disk>>

(* ProcessingPipeline._detect_cues_vad after the VAD task has returned silences *)
DetectCuesVadFinish(c, silences) ==
    IF c.p.step \notin {VAD_PREP, VAD_ANALYSIS}
      THEN c
      ELSE NotifyProgress(
             [c EXCEPT !.p.detected_silences = silences,
                       !.p.vad_scanned_regions = <<<<0, Duration>>>>,
                       !.p.initial_chapter_selection_available = TRUE],
             CUE_SET_SELECTION)

(* create_cues_from_source("smart_detect_vad") run to its end without interruption *)
RunSmartDetectVad ==
    /\ app /\ LoopFree /\ StageFree /\ pl.step = SELECT_CUE_SOURCE
    /\ LET c == DetectCuesVadFinish(NotifyProgress(Ctx(pl), VAD_PREP), Silences)
       IN pl' = c.p /\ sent' = c.out
    /\ Event("run", "detect_vad")
    /\ UNCHANGED <<app, co, job, procs, rq, progress_queue, disk>>

(* select_cue_set run to its end without interruption *)
RunSelectCueSet ==
    /\ app /\ LoopFree /\ StageFree /\ pl.step = CUE_SET_SELECTION
    /\ \E timestamps \in ScanCueChoices :
         LET c0 == ExtractBegin(Ctx([pl EXCEPT !.cues = Sorted(timestamps)]))
             c == ExtractFinish(c0, "list", c0.p.cues, 0)
         IN pl' = c.p /\ sent' = c.out
    /\ disk' = disk \cup {"segment"}
    /\ Event("run", "extract_sel")
    /\ UNCHANGED <<app, co, job, procs, rq, progress_queue>>

(* create_cues_from_source with an existing cue source, run to its end without
   interruption *)
RunExistingSource ==
    /\ app /\ LoopFree /\ StageFree /\ pl.step = SELECT_CUE_SOURCE
    /\ \E cues \in ExistingCueSources :
         LET c0 == ExtractBegin([NotifyProgress(Ctx(pl), AUDIO_EXTRACTION) EXCEPT
                                   !.p.cues = cues, !.p.tasks["extraction"] = "set"])
             c == ExtractFinish(c0, "list", c0.p.cues, 0)
         IN pl' = c.p /\ sent' = c.out
    /\ disk' = disk \cup {"segment"}
    /\ Event("run", "extract_src")
    /\ UNCHANGED <<app, co, job, procs, rq, progress_queue>>

(* restart_at_step(s) with nothing running *)
RestartEffects ==
    /\ \E i \in 1..Len(RestartStep) :
         IF RestartStep[i] = IDLE
           THEN /\ DeletePipelineEffects
                /\ sent' = <<[step |-> IDLE, error |-> FALSE]>>
                /\ Event("run_restart", IDLE)
           ELSE LET c == RestartAtStep(Ctx(pl), RestartStep[i], FALSE)
                IN /\ pl' = c.p
                   /\ sent' = c.out
                   /\ disk' = LadderDisk(disk, RestartStep[i])
                   /\ Event("run_restart", RestartStep[i])
                   /\ UNCHANGED <<app, co, job, procs, progress_queue>>
    /\ UNCHANGED rq

RunRestart == app /\ LoopFree /\ StageFree /\ RestartEffects

(* The user's operations one after the other, none interrupted *)
ScanNext ==
    \/ CreatePipeline
    \/ FetchDone
    \/ RunSmartDetect
    \/ RunSmartDetectVad
    \/ RunSelectCueSet
    \/ RunExistingSource
    \/ StartSkipTranscription
    \/ RunPartialScan
    \/ RunRestart

SpecCoverage == Init /\ [][ScanNext]_vars

----------------------------------------------------------------------------
(* The chapter history: can_undo, can_redo, add_to_history, undo, redo *)

(* ChapterOperation.apply and ChapterOperation.undo for the variants set field
   (the title), delete, insert and batch *)
SetTitle(chs, id, title) ==
    [i \in 1..Len(chs) |-> IF chs[i].id = id THEN [chs[i] EXCEPT !.current_title = title] ELSE chs[i]]

SetDeleted(chs, id, d) ==
    [i \in 1..Len(chs) |-> IF chs[i].id = id THEN [chs[i] EXCEPT !.deleted = d] ELSE chs[i]]

RECURSIVE InsertChapter(_, _)
InsertChapter(chs, ch) ==
    IF chs = <<>> THEN <<ch>>
    ELSE IF ch.timestamp < Head(chs).timestamp THEN <<ch>> \o chs
    ELSE <<Head(chs)>> \o InsertChapter(Tail(chs), ch)

RemoveChapter(chs, id) == SelectSeq(chs, LAMBDA ch : ch.id # id)

(* AICleanupOperation.apply and undo: the title and the selection of the chapter *)
SetCleanup(chs, id, title, selected) ==
    [i \in 1..Len(chs) |->
        IF chs[i].id = id THEN [chs[i] EXCEPT !.current_title = title, !.selected = selected]
        ELSE chs[i]]

ApplySimple(chs, op) ==
    CASE op.type = "set" -> SetTitle(chs, op.id, op.new)
      [] op.type = "delete" -> SetDeleted(chs, op.id, TRUE)
      [] op.type = "insert" -> InsertChapter(chs, ChapterData(op.id, op.new))
      [] op.type = "ai" -> SetCleanup(chs, op.id, op.new, op.selected)
      [] OTHER -> chs

UndoSimple(chs, op) ==
    CASE op.type = "set" -> SetTitle(chs, op.id, op.old)
      [] op.type = "delete" -> SetDeleted(chs, op.id, FALSE)
      [] op.type = "insert" -> RemoveChapter(chs, op.id)
      [] op.type = "ai" -> SetCleanup(chs, op.id, op.old, TRUE)
      [] OTHER -> chs

(* A batch applies its operations in order and undoes them in reverse order *)
RECURSIVE ApplyAll(_, _)
ApplyAll(chs, ops) == IF ops = <<>> THEN chs ELSE ApplyAll(ApplySimple(chs, Head(ops)), Tail(ops))

RECURSIVE UndoAll(_, _)
UndoAll(chs, ops) ==
    IF ops = <<>> THEN chs
    ELSE UndoAll(UndoSimple(chs, ops[Len(ops)]), SubSeq(ops, 1, Len(ops) - 1))

OperationApply(chs, op) == IF op.type = "batch" THEN ApplyAll(chs, op.sub) ELSE ApplySimple(chs, op)

OperationUndo(chs, op) == IF op.type = "batch" THEN UndoAll(chs, op.sub) ELSE UndoSimple(chs, op)

(* ProcessingPipeline.can_undo / can_redo; history_index counts from 0, -1 with
   nothing to undo *)
CanUndo(p) == p.history_index >= 0

CanRedo(p) == p.history_index < Len(p.history_stack) - 1

(* add_to_history without the truncation: the redo tail stays under the new entry *)
AddToHistoryKeepTail(p, op) ==
    [p EXCEPT !.history_stack = Append(@, op),
              !.history_index = Len(p.history_stack)]

(* ProcessingPipeline.add_to_history *)
AddToHistory(p, op) ==
    LET stack == IF p.history_index < Len(p.history_stack) - 1
                   THEN SubSeq(p.history_stack, 1, p.history_index + 1)
                   ELSE p.history_stack
    IN [p EXCEPT !.history_stack = Append(stack, op),
                 !.history_index = Len(Append(stack, op)) - 1]

(* ProcessingPipeline.undo, when can_undo() holds *)
Undo(p) ==
    [p EXCEPT !.chapters = OperationUndo(@, p.history_stack[p.history_index + 1]),
              !.history_index = @ - 1]

(* A redo that moves the cursor and does not apply the operation *)
RedoCursorOnly(p) == [p EXCEPT !.history_index = @ + 1]

(* ProcessingPipeline.redo, when can_redo() holds *)
Redo(p) ==
    [p EXCEPT !.chapters = OperationApply(@, p.history_stack[p.history_index + 2]),
              !.history_index = @ + 1]

(* The operations a user can record on the chapter list chs *)
Titles == {0, 1}
InsertTimestamps == {3}

Operation(type, id, old, new, sub) == [type |-> type, id |-> id, old |-> old, new |-> new, sub |-> sub]

SimpleOperations(chs) ==
    {Operation("set", chs[i].id, chs[i].current_title, t, <<>>) :
        i \in 1..Len(chs), t \in Titles}
    \cup {Operation("delete", chs[i].id, 0, 0, <<>>) : i \in {j \in 1..Len(chs) : ~chs[j].deleted}}
    \cup {Operation("insert", t, 0, 0, <<>>) :
            t \in {u \in InsertTimestamps : \A i \in 1..Len(chs) : chs[i].id # u}}

(* The batch of title replacements of an AI cleanup (process_selected_with_ai) *)
CleanupBatch(chs) ==
    Operation("batch", 0, 0, 0,
              [i \in 1..Len(chs) |-> Operation("set", chs[i].id, chs[i].current_title, 1, <<>>)])

Operations(chs) ==
    {op \in SimpleOperations(chs) : op.type # "set" \/ op.old # op.new} \cup {CleanupBatch(chs)}

(* The pipeline in chapter_editing, the chapters created by skip_transcription from
   the cues 0 and 6, with an empty history *)
EditingPipeline ==
    SkipTranscription(Ctx([NewPipeline EXCEPT !.step = CONFIGURE_ASR,
                                              !.cues = <<0, 6>>,
                                              !.segment_files = <<0, 6>>])).p

HistInit ==
    /\ pl = EditingPipeline
    /\ app = TRUE
    /\ co = NoCo
    /\ job = NoJob
    /\ procs = [i \in 1..MaxProcs |-> FreeProc]
    /\ rq = NoRq
    /\ progress_queue = 0
    /\ disk = {"segment"}
    /\ sent = <<>>
    /\ ev = [act |-> "init", arg |-> "none", by |-> "none", stale |-> "no"]
    /\ ws = NoWs

(* A chapter edit: the operation is applied and recorded *)
ApplyOperation ==
    /\ app /\ pl.step = CHAPTER_EDITING
    /\ Len(pl.history_stack) < MaxHistory \/ CanRedo(pl)
    /\ \E op \in Operations(pl.chapters) :
         pl' = AddToHistory([pl EXCEPT !.chapters = OperationApply(@, op)], op)
    /\ sent' = <<>>
    /\ Event("add_to_history", IF CanRedo(pl) THEN "tail_discarded" ELSE "appended")
    /\ UNCHANGED <<app, co, job, procs, rq, progress_queue, disk>>

(* undo and redo raise ValueError when there is nothing to undo or redo *)
UndoChapters ==
    /\ app /\ pl.step = CHAPTER_EDITING
    /\ pl' = IF CanUndo(pl) THEN Undo(pl) ELSE pl
    /\ sent' = <<>>
    /\ Event("undo", IF CanUndo(pl) THEN "done" ELSE "refused")
    /\ UNCHANGED <<app, co, job, procs, rq, progress_queue, disk>>

RedoChapters ==
    /\ app /\ pl.step = CHAPTER_EDITING
    /\ pl' = IF CanRedo(pl) THEN Redo(pl) ELSE pl
    /\ sent' = <<>>
    /\ Event("redo", IF CanRedo(pl) THEN "done" ELSE "refused")
    /\ UNCHANGED <<app, co, job, procs, rq, progress_queue, disk>>

HistNext ==
    \/ ApplyOperation
    \/ UndoChapters
    \/ RedoChapters

SpecHistory == HistInit /\ [][HistNext]_vars

(* Chapter editing with partial scans: chapters are deleted and restored by undo
   between the scans *)
DeleteChapter ==
    /\ app /\ pl.step = CHAPTER_EDITING
    /\ Len(pl.history_stack) < MaxHistory \/ CanRedo(pl)
    /\ \E op \in {o \in Operations(pl.chapters) : o.type = "delete"} :
         pl' = AddToHistory([pl EXCEPT !.chapters = OperationApply(@, op)], op)
    /\ sent' = <<>>
    /\ Event("add_to_history", "delete")
    /\ UNCHANGED <<app, co, job, procs, rq, progress_queue, disk>>

EditNext ==
    \/ DeleteChapter
    \/ UndoChapters
    \/ RunPartialScan

SpecEditing == HistInit /\ [][EditNext]_vars

----------------------------------------------------------------------------
(* The AI title cleanup: ProcessingPipeline.process_selected_with_ai.  The provider
   answers with a list of titles, of which the null title deselects its chapter,
   or fails *)

(* A title that is None, empty or "null" *)
NullTitle == -1

AiTitles == {NullTitle, 2}

AiAnswers == UNION {[1..n -> AiTitles] : n \in 0..(MaxChapters + 1)}

(* AICleanupOperation(chapter_id, old_title, new_title, selected) *)
AICleanupOperation(chapter_id, old_title, new_title, selected) ==
    [type |-> "ai", id |-> chapter_id, old |-> old_title, new |-> new_title, sub |-> <<>>,
     selected |-> selected]

(* The operations of a cleanup that take the new title for the old one *)
CleanupOperationsNoOldTitle(selected_chapters, processed_titles, keep_deselected_titles) ==
    [i \in 1..Len(selected_chapters) |->
        AICleanupOperation(selected_chapters[i].id,
                           IF processed_titles[i] # NullTitle THEN processed_titles[i] ELSE 0,
                           IF processed_titles[i] # NullTitle THEN processed_titles[i] ELSE 0,
                           processed_titles[i] # NullTitle)]

(* The loop of process_selected_with_ai over the selected chapters: a valid title
   replaces the title, another one deselects the chapter and empties its title
   unless keepDeselectedTitles is set *)
CleanupOperations(selected_chapters, processed_titles, keep_deselected_titles) ==
    [i \in 1..Len(selected_chapters) |->
        IF processed_titles[i] # NullTitle
          THEN AICleanupOperation(selected_chapters[i].id,
                                  selected_chapters[i].current_title,
                                  processed_titles[i], TRUE)
          ELSE AICleanupOperation(selected_chapters[i].id,
                                  selected_chapters[i].current_title,
                                  IF keep_deselected_titles
                                    THEN selected_chapters[i].current_title ELSE 0,
                                  FALSE)]

(* process_selected_with_ai after the provider's answer: the batch is applied and
   recorded, or, the provider having failed or the count being wrong, the step
   goes back to chapter_editing with an error message *)
ProcessSelectedFinish(c, failed, processed_titles, keep_deselected_titles) ==
    LET selected_chapters == SelectSeq(c.p.chapters, LAMBDA ch : ch.selected)
    IN IF failed \/ Len(processed_titles) # Len(selected_chapters)
         THEN Broadcast([c EXCEPT !.p.step = CHAPTER_EDITING], CHAPTER_EDITING, TRUE)
         ELSE LET batch_operation ==
                      Operation("batch", 0, 0, 0,
                                CleanupOperations(selected_chapters, processed_titles,
                                                  keep_deselected_titles))
              IN NotifyProgress(
                     [c EXCEPT !.p = AddToHistory(
                                         [c.p EXCEPT !.chapters =
                                                         OperationApply(@, batch_operation)],
                                         batch_operation)],
                     CHAPTER_EDITING)

(* process_selected_with_ai up to the call of the provider; without a selected
   chapter it returns at once *)
AiCleanupStart ==
    /\ app /\ pl.step = CHAPTER_EDITING /\ co = NoCo
    /\ Len(pl.history_stack) < MaxHistory \/ CanRedo(pl)
    /\ IF \E i \in 1..Len(pl.chapters) : pl.chapters[i].selected
         THEN /\ LET c == NotifyProgress(Ctx([pl EXCEPT !.tasks["ai_cleanup"] = "set"]),
                                         AI_CLEANUP)
                 IN pl' = c.p /\ sent' = c.out
              /\ co' = [kind |-> "ai_cleanup", pc |-> "await", interrupted |-> "no"]
              /\ Event("ai_cleanup", "started")
         ELSE /\ Event("ai_cleanup", "nothing_selected")
              /\ sent' = <<>>
              /\ UNCHANGED <<pl, co>>
    /\ UNCHANGED <<app, job, procs, rq, progress_queue, disk>>

(* The provider answers or fails and process_selected_with_ai runs to its end *)
AiCleanupReturn ==
    /\ app /\ co.kind = "ai_cleanup"
    /\ \E failed \in BOOLEAN, processed_titles \in AiAnswers, keep \in BOOLEAN :
         LET c == ProcessSelectedFinish(Ctx(pl), failed, processed_titles, keep)
             done == ~c.out[Len(c.out)].error
         IN /\ pl' = [c.p EXCEPT !.tasks["ai_cleanup"] = "none"]
            /\ sent' = c.out
            /\ ev' = [act |-> "ai_cleanup", arg |-> IF done THEN "applied" ELSE "failed",
                      by |-> "none", stale |-> "no", failed |-> failed,
                      answer |-> processed_titles, keep |-> keep]
            /\ ws' = ws
    /\ co' = NoCo
    /\ UNCHANGED <<app, job, procs, rq, progress_queue, disk>>

(* routes/pipeline.py cancel_step in ai_cleanup: restart_at_step(chapter_editing)
   cancels the task, which ends in the provider call *)
AiCleanupCancel ==
    /\ app /\ co.kind = "ai_cleanup"
    /\ LET c == RestartAtStep(Ctx(pl), CHAPTER_EDITING, FALSE)
       IN pl' = c.p /\ sent' = c.out
    /\ co' = NoCo
    /\ Event("ai_cleanup", "cancelled")
    /\ UNCHANGED <<app, job, procs, rq, progress_queue, disk>>

AiNext ==
    \/ AiCleanupStart
    \/ AiCleanupReturn
    \/ AiCleanupCancel
    \/ UndoChapters
    \/ RedoChapters

SpecAi == HistInit /\ [][AiNext]_vars

----------------------------------------------------------------------------
(* The transcription returns a list of titles of any length *)

TranscriptionCues == {<<0>>, <<0, 6>>, <<0, 6, 12>>}

TitleLists == UNION {[1..n -> {0, 1, 7}] : n \in 0..(MaxChapters + 1)}

(* _transcribe_segments waits for run_transcription *)
TranscribeInit ==
    /\ \E cues \in TranscriptionCues :
         pl = [NewPipeline EXCEPT !.step = ASR_PROCESSING, !.cues = cues,
                                  !.segment_files = cues, !.trimmed_segment_files = cues]
    /\ app = TRUE
    /\ co = [kind |-> "transcribe", pc |-> "asr", interrupted |-> "no"]
    /\ job = NoJob
    /\ procs = [i \in 1..MaxProcs |-> FreeProc]
    /\ rq = NoRq
    /\ progress_queue = 0
    /\ disk = {"segment", "trimmed"}
    /\ sent = <<>>
    /\ ev = [act |-> "init", arg |-> "none", by |-> "none", stale |-> "no"]
    /\ ws = NoWs

(* run_transcription returns and proceed_with_transcription runs to its end *)
TranscriptionReturns ==
    /\ app /\ co.kind = "transcribe"
    /\ \E titles \in TitleLists :
         LET c == TranscriptionFinish(Ctx(pl), titles)
         IN /\ pl' = c.p
            /\ sent' = c.out
            /\ Event("transcribed", titles)
    /\ co' = NoCo
    /\ UNCHANGED <<app, job, procs, rq, progress_queue, disk>>

TranscribeNext ==
    \/ TranscriptionReturns

SpecTranscribe == TranscribeInit /\ [][TranscribeNext]_vars

----------------------------------------------------------------------------
(* Submitting the chapters: routes/pipeline.py submit_chapters and goto_review,
   ProcessingPipeline.submit_chapters, LocalChapterService.  The timestamps of this
   part are multiples of a quarter of a second, held as counts of quarters, so that
   a distance of exactly 0.75 s occurs *)

Abs(x) == IF x < 0 THEN -x ELSE x

(* tolerance=0.75, in quarters of a second *)
Tolerance == 3

(* validate_grouped_boundary_mapping without the comparison of the timestamps *)
ValidateCountsOnly(selected_starts, expected_starts, tolerance) ==
    IF Len(selected_starts) # Len(expected_starts) THEN "count" ELSE "valid"

(* LocalChapterService.validate_grouped_boundary_mapping: "valid", or the error *)
ValidateGroupedBoundaryMapping(selected_starts, expected_starts, tolerance) ==
    IF Len(selected_starts) # Len(expected_starts) THEN "count"
    ELSE IF \E idx \in 1..Len(selected_starts) :
                Abs(selected_starts[idx] - expected_starts[idx]) > tolerance
           THEN "boundary"
           ELSE "valid"

(* What a write did to the source files: file k rewritten, backup of file k made *)
WrittenMark == <<"written1", "written2", "written3", "written4">>
BackupMark == <<"backup1", "backup2", "backup3", "backup4">>
Marks(seq, ks) == {seq[k] : k \in ks}

(* A failure of a write: at file `at` (0 for none) the file is missing or ffmpeg
   returns an error *)
WriteFailures ==
    {[at |-> 0, kind |-> "none"]}
        \cup {[at |-> k, kind |-> kind] : k \in 1..MaxChapters, kind \in {"missing", "ffmpeg"}}

(* LocalChapterService.write_grouped_file_titles: file after file, the existence
   check, the backup, ffmpeg and the replacement of the file; an error ends the
   loop and leaves what the earlier turns did *)
WriteGroupedFileTitles(d, file_paths, create_backup, fail) ==
    LET n == Len(file_paths)
        failed == fail.at \in 1..n
        done == IF failed THEN 1..(fail.at - 1) ELSE 1..n
        backed == IF failed /\ fail.kind = "ffmpeg" THEN 1..fail.at ELSE done
    IN [disk |-> d \cup Marks(WrittenMark, done)
                   \cup (IF create_backup THEN Marks(BackupMark, backed) ELSE {}),
        ok |-> ~failed]

(* LocalChapterService.write_single_file_chapters: the existence check, the
   backup, ffmpeg and the replacement of the file *)
WriteSingleFileChapters(d, create_backup, fail) ==
    LET failed == fail.at = 1
    IN [disk |-> d \cup (IF failed THEN {} ELSE {WrittenMark[1]})
                   \cup (IF create_backup /\ ~(failed /\ fail.kind = "missing")
                           THEN {BackupMark[1]} ELSE {}),
        ok |-> ~failed]

(* submit_chapters: the selected chapters by timestamp *)
SelectedChapters(chapters) == SortChapters(SelectSeq(chapters, LAMBDA ch : ch.selected))

Timestamps(chapters) == [i \in 1..Len(chapters) |-> chapters[i].timestamp]

(* ProcessingPipeline.submit_chapters for a local source: the context and the disk
   afterwards, and whether it returned True (an exception otherwise) *)
SubmitLocal(c, d, create_backup, fail) ==
    LET selected_chapters == SelectedChapters(c.p.chapters)
        files == c.p.local_audio_files
        expected_starts == IF c.p.file_starts = None THEN <<>> ELSE c.p.file_starts
        raised == [c |-> c, disk |-> d, ok |-> FALSE]
        written(w) == [c |-> IF w.ok THEN NotifyProgress(c, COMPLETED) ELSE c,
                       disk |-> w.disk, ok |-> w.ok]
    IN IF selected_chapters = <<>> THEN raised
       ELSE IF c.p.local_media_layout = "multi_file_grouped"
         THEN IF Len(files) < 2 THEN raised
              ELSE IF Len(selected_chapters) # Len(files) THEN raised
              ELSE IF Len(expected_starts) # Len(selected_chapters) THEN raised
              ELSE IF ValidateGroupedBoundaryMapping(Timestamps(selected_chapters),
                                                     expected_starts, Tolerance) # "valid"
                     THEN raised
              ELSE written(WriteGroupedFileTitles(d, files, create_backup, fail))
         ELSE IF files = <<>> THEN raised
              ELSE written(WriteSingleFileChapters(d, create_backup, fail))

(* routes/pipeline.py submit_chapters after a submit that returned True *)
SubmitSucceeded(c, d) ==
    [c |-> Broadcast([c EXCEPT !.p.step = COMPLETED], COMPLETED, FALSE),
     disk |-> CleanupAllFiles(d)]

SubmitEvent(outcome, issued) ==
    /\ ws' = ws
    /\ ev' = [act |-> "submit", arg |-> outcome, by |-> "none", stale |-> "no", issued |-> issued]

(* A submit route that does not look at the step *)
SubmitRequestAnyStep ==
    /\ app /\ LoopFree /\ StageFree
    /\ \E create_backup \in BOOLEAN, fail \in WriteFailures :
         IF pl.source_type = "local"
           THEN LET r == SubmitLocal(Ctx(pl), disk, create_backup, fail)
                    done == SubmitSucceeded(r.c, r.disk)
                IN IF r.ok
                     THEN /\ pl' = done.c.p /\ sent' = done.c.out /\ disk' = done.disk
                          /\ SubmitEvent("completed", pl.step)
                          /\ UNCHANGED <<app, co, job, procs, rq, progress_queue>>
                     ELSE /\ disk' = r.disk /\ sent' = <<>>
                          /\ SubmitEvent("failed", pl.step)
                          /\ UNCHANGED <<pl, app, co, job, procs, rq, progress_queue>>
           ELSE IF SelectedChapters(pl.chapters) = <<>>
                  THEN /\ sent' = <<>>
                       /\ SubmitEvent("failed", pl.step)
                       /\ UNCHANGED <<pl, app, co, job, procs, rq, progress_queue, disk>>
                  ELSE /\ co' = [kind |-> "submit", pc |-> "upload", interrupted |-> "no",
                                 issued |-> pl.step]
                       /\ sent' = <<>>
                       /\ SubmitEvent("uploading", pl.step)
                       /\ UNCHANGED <<pl, app, job, procs, rq, progress_queue, disk>>

(* routes/pipeline.py submit_chapters: refused outside chapter_editing and
   reviewing; a local write runs without a suspension; the upload to Audiobookshelf
   is awaited *)
SubmitRequest ==
    /\ app /\ LoopFree /\ StageFree
    /\ \E create_backup \in BOOLEAN, fail \in WriteFailures :
         IF pl.step \notin {CHAPTER_EDITING, REVIEWING}
           THEN /\ sent' = <<>>
                /\ SubmitEvent("rejected", pl.step)
                /\ UNCHANGED <<pl, app, co, job, procs, rq, progress_queue, disk>>
           ELSE IF pl.source_type = "local"
           THEN LET r == SubmitLocal(Ctx(pl), disk, create_backup, fail)
                    done == SubmitSucceeded(r.c, r.disk)
                IN IF r.ok
                     THEN /\ pl' = done.c.p /\ sent' = done.c.out /\ disk' = done.disk
                          /\ SubmitEvent("completed", pl.step)
                          /\ UNCHANGED <<app, co, job, procs, rq, progress_queue>>
                     ELSE /\ disk' = r.disk /\ sent' = <<>>
                          /\ SubmitEvent("failed", pl.step)
                          /\ UNCHANGED <<pl, app, co, job, procs, rq, progress_queue>>
           ELSE IF SelectedChapters(pl.chapters) = <<>>
                  THEN /\ sent' = <<>>
                       /\ SubmitEvent("failed", pl.step)
                       /\ UNCHANGED <<pl, app, co, job, procs, rq, progress_queue, disk>>
                  ELSE /\ co' = [kind |-> "submit", pc |-> "upload", interrupted |-> "no",
                                 issued |-> pl.step]
                       /\ sent' = <<>>
                       /\ SubmitEvent("uploading", pl.step)
                       /\ UNCHANGED <<pl, app, job, procs, rq, progress_queue, disk>>

(* The upload has returned: submit_chapters notifies completed and the route
   finishes, or submit_chapters raises *)
SubmitUploadDone ==
    /\ app /\ LoopFree /\ co.kind = "submit"
    /\ \E success \in BOOLEAN :
         IF success
           THEN LET done == SubmitSucceeded(NotifyProgress(Ctx(pl), COMPLETED), disk)
                IN /\ pl' = done.c.p /\ sent' = done.c.out /\ disk' = done.disk
                   /\ SubmitEvent("completed", co.issued)
           ELSE /\ sent' = <<>>
                /\ SubmitEvent("failed", co.issued)
                /\ UNCHANGED <<pl, disk>>
    /\ co' = NoCo
    /\ UNCHANGED <<app, job, procs, rq, progress_queue>>

(* routes/pipeline.py goto_review *)
GotoReview ==
    /\ app /\ LoopFree
    /\ IF pl.step # CHAPTER_EDITING
         THEN /\ sent' = <<>>
              /\ Event("goto_review", "rejected")
              /\ UNCHANGED pl
         ELSE /\ pl' = [pl EXCEPT !.step = REVIEWING]
              /\ sent' = <<[step |-> REVIEWING, error |-> FALSE]>>
              /\ Event("goto_review", "done")
    /\ UNCHANGED <<app, co, job, procs, rq, progress_queue, disk>>

(* routes/pipeline.py restart_pipeline while an upload is awaited or nothing runs *)
RestartPipeline ==
    /\ app /\ LoopFree /\ job.kind = "none" /\ co.kind \in {"none", "submit"}
    /\ RestartEffects

(* The chapter lists, the sources and the file layouts a submit meets *)
SubmitStamps == {0, Tolerance, MaxCoord - Tolerance, MaxCoord}

SubmitChapterLists ==
    {chs \in UNION {[1..n -> {[ChapterData(t, "t") EXCEPT !.selected = sel] :
                                 t \in SubmitStamps, sel \in BOOLEAN}] : n \in 1..MaxChapters} :
        \A i \in 1..(Len(chs) - 1) : chs[i].timestamp <= chs[i + 1].timestamp}

SubmitSources ==
    {[source_type |-> "abs", local_media_layout |-> "single_file",
      local_audio_files |-> <<>>, file_starts |-> None]}
        \cup {[source_type |-> "local", local_media_layout |-> layout,
               local_audio_files |-> [k \in 1..n |-> k], file_starts |-> starts] :
                 layout \in {"single_file", "multi_file_grouped"},
                 n \in 0..MaxChapters,
                 starts \in {None, [k \in 1..MaxChapters |-> (k - 1) * MaxCoord]}}

SubmitInit ==
    /\ \E chs \in SubmitChapterLists, src \in SubmitSources :
         pl = [EditingPipeline EXCEPT !.chapters = chs,
                                      !.source_type = src.source_type,
                                      !.local_media_layout = src.local_media_layout,
                                      !.local_audio_files = src.local_audio_files,
                                      !.file_starts = src.file_starts]
    /\ app = TRUE
    /\ co = NoCo
    /\ job = NoJob
    /\ procs = [i \in 1..MaxProcs |-> FreeProc]
    /\ rq = NoRq
    /\ progress_queue = 0
    /\ disk = {"segment"}
    /\ sent = <<>>
    /\ ev = [act |-> "init", arg |-> "none", by |-> "none", stale |-> "no"]
    /\ ws = NoWs

SubmitNext ==
    \/ SubmitRequest
    \/ SubmitUploadDone
    \/ GotoReview
    \/ RestartPipeline
    \/ DeletePipeline

SpecSubmit == SubmitInit /\ [][SubmitNext]_vars

----------------------------------------------------------------------------
(* The delivery of progress updates and step changes, for the trimming stage of
   proceed_with_transcription.  Every message is broadcast by a task of its own
   (asyncio.create_task), and a task sends to one connection after the other.
   ws.ready is the queue of the event loop, first in first out: a positive entry
   is a broadcast task, 0 is the coroutine of the stage, -c is the end of the
   oldest send in flight on connection c, Endpoint(c) is the WebSocket endpoint
   that adds connection c.  The loop works in iterations: it takes
   the ws.batch entries that are ready when the iteration starts and runs them, and
   what they make ready waits for the next iteration.  Timers and the ends of
   sends are seen between two iterations only (ws.batch = 0).  A send on a
   connection ends after the sends called before it on that connection *)

Consumers == 1..MaxConsumers

ProgressUpdate(s, n) == [type |-> "progress_update", step |-> s, from |-> s, n |-> n]
StepChange(old, s) == [type |-> "step_change", step |-> s, from |-> old, n |-> 0]

(* asyncio.create_task of broadcast_step_change or _handle_progress_update: the
   task is ready after what is ready *)
Schedule(w, msg) ==
    [w EXCEPT !.msgs = Append(@, msg),
              !.copy = Append(@, <<>>),
              !.pos = Append(@, 0),
              !.ready = Append(@, Len(w.msgs) + 1)]

(* ProcessingPipeline._notify_progress with AppState's progress_callback: the task
   of the step change when the step differs, then the task of the progress update
   n *)
NotifyTasks(w, old, s, n) ==
    Schedule(IF old # s THEN Schedule(w, StepChange(old, s)) ELSE w, ProgressUpdate(s, n))

(* A direct call of _notify_progress: the update is produced by the call *)
NotifyNow(w, old, s) ==
    NotifyTasks([w EXCEPT !.produced = @ + 1], old, s, w.produced + 1)

(* _process_queued_progress: every queued update goes to the callback, first in
   first out *)
RECURSIVE DrainQueue(_, _)
DrainQueue(w, s) ==
    IF w.queue = <<>> THEN w
    ELSE DrainQueue(NotifyTasks([w EXCEPT !.queue = Tail(@)], s, s, Head(w.queue)), s)

RemoveAt(q, i) == [k \in 1..(Len(q) - 1) |-> IF k < i THEN q[k] ELSE q[k + 1]]

Count(q, x) == Cardinality({k \in 1..Len(q) : q[k] = x})

(* trim_segments sleeps in its polling loop: the step change to trimming and the
   update of _notify_progress(TRIMMING, 0) have reached the connected consumers *)
DeliveryInit ==
    /\ pl = [NewPipeline EXCEPT !.step = TRIMMING, !.cues = <<0, 6>>,
                                !.segment_files = <<0, 6>>]
    /\ app = TRUE
    /\ co = [kind |-> "trim", pc |-> "sleep", interrupted |-> "no"]
    /\ job = [NoJob EXCEPT !.kind = "trim", !.pc = "run"]
    /\ procs = [i \in 1..MaxProcs |-> FreeProc]
    /\ rq = NoRq
    /\ progress_queue = 0
    /\ disk = {"segment"}
    /\ sent = <<>>
    /\ ev = [act |-> "init", arg |-> "none", by |-> "none", stale |-> "no"]
    /\ \E first \in Consumers :
         ws = [NoWs EXCEPT
                 !.connections = <<first>>,
                 !.produced = 1,
                 !.pending = [c \in Consumers |-> <<>>],
                 !.delivered = [c \in Consumers |->
                                  IF c = first
                                    THEN <<StepChange(ASR_PROCESSING, TRIMMING),
                                           ProgressUpdate(TRIMMING, 1)>>
                                    ELSE <<>>]]

DeliveryEvent(a) == ev' = [act |-> a, arg |-> "none", by |-> "none", stale |-> "no"]

(* The queue entry of the WebSocket endpoint of consumer c *)
Endpoint(c) == -(MaxConsumers + c)

(* main.py, the WebSocket endpoint: a consumer connects and its endpoint is ready *)
Connect ==
    /\ ws.batch = 0
    /\ \E c \in Consumers :
         /\ \A k \in 1..Len(ws.connections) : ws.connections[k] # c
         /\ Count(ws.ready, Endpoint(c)) = 0
         /\ ws' = [ws EXCEPT !.ready = Append(@, Endpoint(c))]
    /\ DeliveryEvent("connect")
    /\ UNCHANGED <<pl, app, co, job, procs, rq, progress_queue, disk, sent>>

(* _trim_segments in the worker thread: _progress_queue.append *)
DeliverThreadProgress ==
    /\ job.kind = "trim" /\ job.pc = "run"
    /\ ws.produced <= MaxQueue
    /\ progress_queue' = progress_queue + 1
    /\ ws' = [ws EXCEPT !.queue = Append(@, ws.produced + 1), !.produced = @ + 1]
    /\ DeliveryEvent("thread_progress")
    /\ UNCHANGED <<pl, app, co, job, procs, rq, disk, sent>>

(* The worker thread returns *)
DeliverThreadDone ==
    /\ job.kind = "trim" /\ job.pc = "run"
    /\ job' = [job EXCEPT !.pc = "done"]
    /\ DeliveryEvent("thread_done")
    /\ UNCHANGED <<pl, app, co, procs, rq, progress_queue, disk, sent, ws>>

(* asyncio.sleep(0.1) of the polling loop is over: the coroutine of the stage is
   ready *)
StageTimer ==
    /\ co.kind = "trim" /\ co.pc = "sleep"
    /\ ws.batch = 0
    /\ co' = [co EXCEPT !.pc = "poll"]
    /\ ws' = [ws EXCEPT !.ready = Append(@, 0)]
    /\ DeliveryEvent("timer")
    /\ UNCHANGED <<pl, app, job, procs, rq, progress_queue, disk, sent>>

(* The end of a send in flight on a connection is reported to the event loop *)
SendEnds ==
    /\ \E c \in Consumers :
         /\ ws.batch = 0
         /\ Count(ws.ready, -c) < Len(ws.pending[c])
         /\ ws' = [ws EXCEPT !.ready = Append(@, -c)]
    /\ DeliveryEvent("send_ends")
    /\ UNCHANGED <<pl, app, co, job, procs, rq, progress_queue, disk, sent>>

(* The coroutine of the stage runs.  In the polling loop of trim_segments: the
   queue is emptied and the coroutine sleeps again, or, the thread having
   returned, the queue is emptied, 100 % is notified and the task ends, which
   makes _create_trimmed_segments ready.  _create_trimmed_segments then notifies
   asr_processing *)
StageStep(w) ==
    IF co.pc = "poll" /\ job.pc = "run"
      THEN [w |-> DrainQueue(w, pl.step), step |-> pl.step, pc |-> "sleep"]
    ELSE IF co.pc = "poll"
      THEN [w |-> [NotifyNow(DrainQueue(w, pl.step), pl.step, pl.step) EXCEPT
                     !.ready = Append(@, 0)],
            step |-> pl.step, pc |-> "parent"]
    ELSE [w |-> NotifyNow(w, pl.step, ASR_PROCESSING), step |-> ASR_PROCESSING, pc |-> "none"]

(* The sends in flight on a connection that end next: the first one called *)
Completes(q) == {1}

(* The first entry of the queue leaves it: one entry less in the iteration, which
   starts with all that is ready *)
Pop(w) ==
    [w EXCEPT !.ready = Tail(@),
              !.batch = (IF w.batch = 0 THEN Len(w.ready) ELSE w.batch) - 1]

(* The first entry of the queue runs and stays the running one *)
Running(w) == [w EXCEPT !.batch = IF w.batch = 0 THEN Len(w.ready) ELSE w.batch]

(* The event loop runs the first entry of its queue up to the next suspension.
   A broadcast task (AppState.broadcast_message) copies the connection list at its
   start and calls send_text for its next connection, which returns at once or
   suspends the task; after the last connection the task ends *)
LoopRun ==
    /\ ws.ready # <<>>
    /\ LET h == Head(ws.ready)
           rest == Pop(ws)
       IN IF h = 0
            THEN LET r == StageStep(rest)
                 IN /\ ws' = r.w
                    /\ pl' = [pl EXCEPT !.step = r.step,
                                        !.trimmed_segment_files =
                                            IF r.pc = "none" THEN pl.segment_files ELSE @]
                    /\ co' = IF r.pc = "none" THEN NoCo ELSE [co EXCEPT !.pc = r.pc]
                    /\ job' = IF r.pc = "sleep" THEN job ELSE NoJob
                    /\ progress_queue' = 0
                    /\ DeliveryEvent("stage_step")
          ELSE IF h < -MaxConsumers
            THEN /\ ws' = [rest EXCEPT !.connections = Append(@, -h - MaxConsumers)]
                 /\ DeliveryEvent("connected")
                 /\ UNCHANGED <<pl, co, job, progress_queue>>
          ELSE IF h < 0
            THEN /\ \E i \in Completes(ws.pending[-h]) :
                      LET t == ws.pending[-h][i]
                      IN ws' = [rest EXCEPT !.pending[-h] = RemoveAt(@, i),
                                            !.delivered[-h] = Append(@, ws.msgs[t]),
                                            !.pos[t] = @ + 1,
                                            !.ready = Append(@, t)]
                 /\ DeliveryEvent("send_complete")
                 /\ UNCHANGED <<pl, co, job, progress_queue>>
          ELSE LET w == IF ws.pos[h] = 0
                          THEN [ws EXCEPT !.copy[h] = ws.connections, !.pos[h] = 1]
                          ELSE ws
               IN /\ IF w.pos[h] > Len(w.copy[h])
                       THEN ws' = Pop(w)
                       ELSE LET c == w.copy[h][w.pos[h]]
                            IN \/ /\ w.pending[c] = <<>>
                                  /\ ws' = [Running(w) EXCEPT
                                               !.delivered[c] = Append(@, w.msgs[h]),
                                               !.pos[h] = @ + 1]
                               \/ ws' = [Pop(w) EXCEPT !.pending[c] = Append(@, h)]
                  /\ DeliveryEvent("task_run")
                  /\ UNCHANGED <<pl, co, job, progress_queue>>
    /\ UNCHANGED <<app, procs, rq, disk, sent>>

DeliveryNext ==
    \/ Connect
    \/ DeliverThreadProgress
    \/ DeliverThreadDone
    \/ StageTimer
    \/ SendEnds
    \/ LoopRun

SpecDelivery == DeliveryInit /\ [][DeliveryNext]_vars

----------------------------------------------------------------------------
(* The pure functions of the pipeline, called on their arguments: ev holds the
   arguments of the call to make, then the arguments and the result of the call *)

Coords == 0..MaxCoord

Intervals == {r \in Coords \X Coords : r[1] <= r[2]}

ScannedLists == UNION {[1..n -> Intervals] : n \in 0..MaxScanned}

(* The arguments of a call of _get_uncovered_subregions: start < end *)
UncoveredArgs ==
    {[fn |-> "get_uncovered_subregions", scanned |-> scanned, start |-> start, end |-> end] :
        scanned \in ScannedLists, start \in Coords, end \in Coords}

CallArgs == {a \in UncoveredArgs : a.start < a.end}

CallsInit ==
    /\ pl = NewPipeline
    /\ app = FALSE
    /\ co = NoCo
    /\ job = NoJob
    /\ procs = [i \in 1..MaxProcs |-> FreeProc]
    /\ rq = NoRq
    /\ progress_queue = 0
    /\ disk = {}
    /\ sent = <<>>
    /\ \E a \in CallArgs : ev = [act |-> "args", arg |-> a, by |-> "none", stale |-> "no"]
    /\ ws = NoWs

Pending(fn) == ev.act = "args" /\ ev.arg.fn = fn

Call(name, x) == ev' = [act |-> name, arg |-> x, by |-> "none", stale |-> "no"] /\ ws' = ws

CallGetUncoveredSubregions ==
    /\ Pending("get_uncovered_subregions")
    /\ Call("get_uncovered_subregions",
            [scanned |-> ev.arg.scanned, start |-> ev.arg.start, end |-> ev.arg.end,
             result |-> GetUncoveredSubregions(ev.arg.scanned, ev.arg.start, ev.arg.end)])
    /\ UNCHANGED <<pl, app, co, job, procs, rq, progress_queue, disk, sent>>

CallsNext ==
    \/ CallGetUncoveredSubregions

SpecCalls == CallsInit /\ [][CallsNext]_vars

----------------------------------------------------------------------------
(* The cue list of select_cue_set.  Timestamps are counted in tenths of a second *)

(* tolerance = 5.0 of _merge_unaligned_timestamps *)
MergeTolerance == 50

SeqToSet(sq) == {sq[i] : i \in 1..Len(sq)}

(* any(abs(timestamp - existing) <= tolerance for existing in deduplicated) *)
WithinTolerance(timestamp, existing, tolerance) ==
    \E i \in 1..Len(existing) : Abs(timestamp - existing[i]) <= tolerance

(* The loop of _deduplicate_timestamps without the tolerance test *)
RECURSIVE DeduplicateKeepAll(_, _, _)
DeduplicateKeepAll(deduplicated, rest, tolerance) ==
    IF rest = <<>> THEN deduplicated
    ELSE DeduplicateKeepAll(Append(deduplicated, Head(rest)), Tail(rest), tolerance)

(* The loop of _deduplicate_timestamps: a timestamp is appended unless it is within
   the tolerance of one that is kept *)
RECURSIVE DeduplicateLoop(_, _, _)
DeduplicateLoop(deduplicated, rest, tolerance) ==
    IF rest = <<>> THEN deduplicated
    ELSE DeduplicateLoop(IF WithinTolerance(Head(rest), deduplicated, tolerance)
                           THEN deduplicated
                           ELSE Append(deduplicated, Head(rest)),
                         Tail(rest), tolerance)

(* _deduplicate_timestamps; priority_timestamps is None or a list *)
DeduplicateTimestamps(timestamps, tolerance, priority_timestamps) ==
    IF timestamps = <<>> THEN <<>>
    ELSE IF priority_timestamps = None
      THEN LET sorted_timestamps == Sorted(timestamps)
           IN DeduplicateLoop(<<Head(sorted_timestamps)>>, Tail(sorted_timestamps), tolerance)
    ELSE LET non_priority == SelectSeq(timestamps,
                                       LAMBDA ts : ts \notin SeqToSet(priority_timestamps))
         IN Sorted(DeduplicateLoop(Sorted(priority_timestamps), Sorted(non_priority), tolerance))

(* _get_existing_cue_source: the cues of the source with this id, None without
   such a source; the id of a source is its place in the list *)
GetExistingCueSource(cue_sources, id) ==
    IF id \in 1..Len(cue_sources) THEN cue_sources[id] ELSE None

(* The loop of _merge_unaligned_timestamps over include_unaligned: the cues of the
   sources that are farther than the tolerance from every selected timestamp *)
RECURSIVE AllUnaligned(_, _, _, _)
AllUnaligned(selected_timestamps, cue_sources, include_unaligned, tolerance) ==
    IF include_unaligned = <<>> THEN <<>>
    ELSE LET cue_source == GetExistingCueSource(cue_sources, Head(include_unaligned))
             unaligned_timestamps ==
                 IF cue_source = None THEN <<>>
                 ELSE SelectSeq(cue_source,
                                LAMBDA existing_timestamp :
                                    ~WithinTolerance(existing_timestamp, selected_timestamps,
                                                     tolerance))
         IN unaligned_timestamps
              \o AllUnaligned(selected_timestamps, cue_sources, Tail(include_unaligned),
                              tolerance)

(* _merge_unaligned_timestamps *)
MergeUnalignedTimestamps(selected_timestamps, cue_sources, include_unaligned) ==
    IF include_unaligned = <<>> \/ cue_sources = <<>> THEN selected_timestamps
    ELSE DeduplicateTimestamps(
             selected_timestamps
               \o AllUnaligned(selected_timestamps, cue_sources, include_unaligned,
                               MergeTolerance),
             MergeTolerance, selected_timestamps)

(* select_cue_set: self.cues before the extraction *)
SelectedCues(timestamps, cue_sources, include_unaligned) ==
    IF include_unaligned # <<>>
      THEN MergeUnalignedTimestamps(Sorted(timestamps), cue_sources, include_unaligned)
      ELSE Sorted(timestamps)

(* Timestamps 5 s apart, a tenth more than 5 s apart, and closer *)
MergeStamps == {100, 150, 151, 200}

CueLists(n) == UNION {[1..k -> MergeStamps] : k \in 0..n}

(* One source, or two of which the second has at most one cue *)
MergeSources ==
    {<<e>> : e \in CueLists(MaxCues)} \cup (CueLists(MaxCues) \X CueLists(1))

(* The ids of include_unaligned: none, the sources in either order, an id without
   a source *)
IncludeLists == {<<>>, <<1>>, <<1, 2>>, <<2, 1>>, <<3>>}

MergeExample ==
    [fn |-> "select_cue_set", timestamps |-> <<100, 1000, 5000>>,
     cue_sources |-> <<<<110, 2000, 5002>>>>, include_unaligned |-> <<1>>]

MergeArgs ==
    {[fn |-> "select_cue_set", timestamps |-> t, cue_sources |-> srcs,
      include_unaligned |-> inc] :
        t \in CueLists(MaxCues), srcs \in MergeSources, inc \in IncludeLists}
      \cup {MergeExample}

MergeInit ==
    /\ pl = NewPipeline
    /\ app = FALSE
    /\ co = NoCo
    /\ job = NoJob
    /\ procs = [i \in 1..MaxProcs |-> FreeProc]
    /\ rq = NoRq
    /\ progress_queue = 0
    /\ disk = {}
    /\ sent = <<>>
    /\ \E a \in MergeArgs : ev = [act |-> "args", arg |-> a, by |-> "none", stale |-> "no"]
    /\ ws = NoWs

CallSelectedCues ==
    /\ Pending("select_cue_set")
    /\ Call("select_cue_set",
            [timestamps |-> ev.arg.timestamps, cue_sources |-> ev.arg.cue_sources,
             include_unaligned |-> ev.arg.include_unaligned,
             result |-> SelectedCues(ev.arg.timestamps, ev.arg.cue_sources,
                                     ev.arg.include_unaligned)])
    /\ UNCHANGED <<pl, app, co, job, procs, rq, progress_queue, disk, sent>>

MergeNext ==
    \/ CallSelectedCues

SpecMerge == MergeInit /\ [][MergeNext]_vars

----------------------------------------------------------------------------
(* LocalChapterService.write_single_file_chapters, file by file.  fs says what the
   directory of the book and the temp directory hold: the book file (orig) with its
   old or its new chapters, the .achew.bak copy, the metadata temp file and the
   .achew.tmp output.  fail names the step that fails, if one does *)

WriteSteps == {"none", "ffprobe", "backup", "meta_write", "ffmpeg", "replace"}

(* The finally clause: os.unlink(metadata_path) and tmp_output.unlink() *)
WriteCleanup(fs) == [fs EXCEPT !.meta = FALSE, !.tmp = "absent"]

(* The outcome of a call: the files afterwards, whether it raised, whether ffmpeg
   was started, and the files as they were at that point *)
WriteOutcome(fs, raised, started, at_start) ==
    [fs |-> fs, raised |-> raised, started |-> started, at_start |-> at_start]

WriteSingleFileChaptersOn(fs, chapters, create_backup, fail) ==
    IF fs.orig = "absent" THEN WriteOutcome(fs, TRUE, FALSE, fs)
    ELSE IF fail = "ffprobe" \/ chapters = <<>> THEN WriteOutcome(fs, TRUE, FALSE, fs)
    ELSE IF create_backup /\ fail = "backup"
      THEN WriteOutcome([fs EXCEPT !.bak = "partial"], TRUE, FALSE, fs)
    ELSE LET fs1 == IF create_backup THEN [fs EXCEPT !.bak = fs.orig] ELSE fs
             fs2 == [fs1 EXCEPT !.meta = TRUE]
         IN IF fail = "meta_write" THEN WriteOutcome(fs2, TRUE, FALSE, fs2)
            ELSE IF fail = "ffmpeg"
              THEN WriteOutcome(WriteCleanup([fs2 EXCEPT !.tmp = "partial"]), TRUE, TRUE, fs2)
            ELSE IF fail = "replace"
              THEN WriteOutcome(WriteCleanup([fs2 EXCEPT !.tmp = "new"]), TRUE, TRUE, fs2)
            ELSE WriteOutcome(WriteCleanup([fs2 EXCEPT !.orig = "new", !.tmp = "absent"]),
                              FALSE, TRUE, fs2)

WriteChapterLists == {<<>>, <<0>>, <<0, 6>>, <<6, 0>>}

WriteArgs ==
    {[fn |-> "write_single_file_chapters",
      fs |-> [orig |-> orig, bak |-> bak, meta |-> FALSE, tmp |-> "absent"],
      chapters |-> chapters, create_backup |-> create_backup, fail |-> fail] :
        orig \in {"absent", "old"}, bak \in {"absent", "stale"},
        chapters \in WriteChapterLists, create_backup \in BOOLEAN, fail \in WriteSteps}

WriteInit ==
    /\ pl = NewPipeline
    /\ app = FALSE
    /\ co = NoCo
    /\ job = NoJob
    /\ procs = [i \in 1..MaxProcs |-> FreeProc]
    /\ rq = NoRq
    /\ progress_queue = 0
    /\ disk = {}
    /\ sent = <<>>
    /\ \E a \in WriteArgs : ev = [act |-> "args", arg |-> a, by |-> "none", stale |-> "no"]
    /\ ws = NoWs

CallWriteSingleFileChapters ==
    /\ Pending("write_single_file_chapters")
    /\ Call("write_single_file_chapters",
            [fs |-> ev.arg.fs, create_backup |-> ev.arg.create_backup, fail |-> ev.arg.fail,
             result |-> WriteSingleFileChaptersOn(ev.arg.fs, ev.arg.chapters,
                                                  ev.arg.create_backup, ev.arg.fail)])
    /\ UNCHANGED <<pl, app, co, job, procs, rq, progress_queue, disk, sent>>

WriteNext ==
    \/ CallWriteSingleFileChapters

SpecWrite == WriteInit /\ [][WriteNext]_vars

----------------------------------------------------------------------------
(* LocalChapterService._build_ffmetadata.  Starts and the duration are given in
   half milliseconds, so that int(round(x * 1000)) has ties to round; a title is a
   sequence of characters, "sp" a blank and "nl" a line break *)

(* int(round(x * 1000)): Python rounds a tie to the even neighbour *)
RoundMs(h) ==
    LET floor == h \div 2
    IN IF h % 2 = 0 \/ floor % 2 = 0 THEN floor ELSE floor + 1

RECURSIVE Strip(_)
Strip(t) ==
    IF t = <<>> THEN t
    ELSE IF Head(t) = "sp" THEN Strip(Tail(t))
    ELSE IF t[Len(t)] = "sp" THEN Strip(SubSeq(t, 1, Len(t) - 1))
    ELSE t

(* (title or "").replace("\n", " ").strip() *)
SafeTitle(title) == Strip([i \in 1..Len(title) |-> IF title[i] = "nl" THEN "sp" ELSE title[i]])

(* sorted(chapters, key=lambda c: c[0]): stable, one element at a time *)
RECURSIVE SortedByStart(_)
SortedByStart(chapters) ==
    IF chapters = <<>> THEN <<>>
    ELSE LET rest == SortedByStart(SubSeq(chapters, 1, Len(chapters) - 1))
             c == chapters[Len(chapters)]
             k == Cardinality({i \in 1..Len(rest) : rest[i].start <= c.start})
         IN SubSeq(rest, 1, k) \o <<c>> \o SubSeq(rest, k + 1, Len(rest))

ChapterEndNoClamp(start_ms, end) == RoundMs(end)

(* end_ms = max(start_ms, int(round(end * 1000))) *)
ChapterEnd(start_ms, end) == Max(start_ms, RoundMs(end))

BuildFfmetadata(chapters, duration) ==
    LET sorted == SortedByStart(chapters)
        ordered == IF sorted[1].start > 0 THEN [sorted EXCEPT ![1].start = 0] ELSE sorted
    IN [i \in 1..Len(ordered) |->
          LET end == IF i = Len(ordered) THEN duration ELSE ordered[i + 1].start
              start_ms == Max(0, RoundMs(ordered[i].start))
          IN [START |-> start_ms, END |-> ChapterEnd(start_ms, end),
              title |-> SafeTitle(ordered[i].title)]]

MetaStarts == {-3, 0, 1, 3, 4}

MetaTitles == {<<>>, <<"a">>, <<"sp", "b", "nl">>}

MetaDurations == {0, 3, 5}

MetaChapters == [start : MetaStarts, title : MetaTitles]

MetaArgs ==
    {[fn |-> "build_ffmetadata", chapters |-> chapters, duration |-> duration] :
        chapters \in UNION {[1..n -> MetaChapters] : n \in 0..MaxChapters},
        duration \in MetaDurations}

MetaInit ==
    /\ pl = NewPipeline
    /\ app = FALSE
    /\ co = NoCo
    /\ job = NoJob
    /\ procs = [i \in 1..MaxProcs |-> FreeProc]
    /\ rq = NoRq
    /\ progress_queue = 0
    /\ disk = {}
    /\ sent = <<>>
    /\ \E a \in MetaArgs : ev = [act |-> "args", arg |-> a, by |-> "none", stale |-> "no"]
    /\ ws = NoWs

CallBuildFfmetadata ==
    /\ Pending("build_ffmetadata")
    /\ Call("build_ffmetadata",
            [chapters |-> ev.arg.chapters, duration |-> ev.arg.duration,
             raised |-> ev.arg.chapters = <<>>,
             result |-> IF ev.arg.chapters = <<>> THEN <<>>
                        ELSE BuildFfmetadata(ev.arg.chapters, ev.arg.duration)])
    /\ UNCHANGED <<pl, app, co, job, procs, rq, progress_queue, disk, sent>>

MetaNext ==
    \/ CallBuildFfmetadata

SpecMeta == MetaInit /\ [][MetaNext]_vars

----------------------------------------------------------------------------
(* AudioProcessingService._run_concat_files as its two callers use it.  A directory
   is a path: <<"library", d>> a folder of the local library, <<"cache", "uuid">> the
   pipeline's temp_dir, <<"cache", "uuid", d>> a folder below it and
   <<"cache", "concat">> the directory tempfile.gettempdir()/achew/cache/concat *)

TempDir == <<"cache", "uuid">>

ConcatCache == <<"cache", "concat">>

(* _fetch_local_item: the files of one folder of the library (resolve_candidate) *)
LocalInputDirs ==
    {[i \in 1..n |-> <<"library", d>>] : n \in 2..3, d \in {"book1", "book2"}}

(* _download_audio_files: each file goes to temp_dir/relPath, and relPath names the
   file alone or a folder and the file *)
DownloadInputDirs ==
    UNION {[1..n -> {TempDir, TempDir \o <<"disc1">>}] : n \in 2..3}

(* What the two ffmpeg runs do: the copy run succeeds, or only the re-encoding run,
   or neither, or writing the list file raises *)
ConcatRuns == {"copy", "reencode", "failed", "raised"}

(* The directories that got a file, the list file's directory if the list file is
   still there, and the returned file's directory (None for a None result) *)
RunConcatFiles(input_dirs, output_dir, run) ==
    LET source_dir == input_dirs[1]
        requested == IF output_dir = None THEN ConcatCache ELSE output_dir
        target_dir == IF requested = source_dir THEN ConcatCache ELSE requested
    IN [target_dir |-> target_dir,
        redirected |-> requested = source_dir,
        created |-> {target_dir},
        filelist |-> None,
        output |-> IF run \in {"copy", "reencode"} THEN target_dir ELSE None]

ConcatArgs ==
    {[fn |-> "run_concat_files", caller |-> "fetch_local_item", input_dirs |-> dirs,
      output_dir |-> TempDir, run |-> run] : dirs \in LocalInputDirs, run \in ConcatRuns}
    \cup
    {[fn |-> "run_concat_files", caller |-> "fetch_abs_item", input_dirs |-> dirs,
      output_dir |-> TempDir, run |-> run] : dirs \in DownloadInputDirs, run \in ConcatRuns}

ConcatInit ==
    /\ pl = NewPipeline
    /\ app = FALSE
    /\ co = NoCo
    /\ job = NoJob
    /\ procs = [i \in 1..MaxProcs |-> FreeProc]
    /\ rq = NoRq
    /\ progress_queue = 0
    /\ disk = {}
    /\ sent = <<>>
    /\ \E a \in ConcatArgs : ev = [act |-> "args", arg |-> a, by |-> "none", stale |-> "no"]
    /\ ws = NoWs

CallRunConcatFiles ==
    /\ Pending("run_concat_files")
    /\ Call("run_concat_files",
            [caller |-> ev.arg.caller, input_dirs |-> ev.arg.input_dirs,
             output_dir |-> ev.arg.output_dir, run |-> ev.arg.run,
             result |-> RunConcatFiles(ev.arg.input_dirs, ev.arg.output_dir, ev.arg.run)])
    /\ UNCHANGED <<pl, app, co, job, procs, rq, progress_queue, disk, sent>>

ConcatNext ==
    \/ CallRunConcatFiles

SpecConcat == ConcatInit /\ [][ConcatNext]_vars

----------------------------------------------------------------------------
(* The local library's path checks: validate_local_root,
   LocalLibraryService.resolve_candidate and the decoding of item ids in
   LocalCompletionService.  A path is the sequence of its components below /; a
   relative path that starts with / has "/" as its first component.  The file
   system is a fixed tree with three symbolic links *)

MediaBase == <<"media">>

LibraryRoot == <<"media", "lib">>

FsDirs ==
    {<<>>, <<"media">>, <<"media", "lib">>, <<"media", "lib", "book">>,
     <<"media", "lib", ".hidden">>, <<"etc">>, <<"etc", "pair">>}

FsFiles ==
    {<<"media", "lib", "solo.m4b">>, <<"media", "lib", "book", "a.m4b">>,
     <<"media", "lib", "book", "notes.txt">>,
     <<"etc", "x.m4b">>, <<"etc", "pair", "1.m4b">>, <<"etc", "pair", "2.m4b">>}

FsLinks ==
    {<<<<"media", "escape">>, <<"etc">>>>,
     <<<<"media", "lib", "out">>, <<"etc">>>>,
     <<<<"media", "lib", "book", "b.m4b">>, <<"etc", "x.m4b">>>>}

IsLink(path) == \E l \in FsLinks : l[1] = path

LinkTarget(path) == (CHOOSE l \in FsLinks : l[1] = path)[2]

(* Path.resolve(): .. removes the last component, a symbolic link is replaced by
   its target *)
RECURSIVE ResolveFrom(_, _)
ResolveFrom(cur, rest) ==
    IF rest = <<>> THEN cur
    ELSE IF Head(rest) = "/" THEN ResolveFrom(<<>>, Tail(rest))
    ELSE IF Head(rest) = ".."
      THEN ResolveFrom(IF cur = <<>> THEN cur ELSE SubSeq(cur, 1, Len(cur) - 1), Tail(rest))
    ELSE LET next == Append(cur, Head(rest))
         IN ResolveFrom(IF IsLink(next) THEN LinkTarget(next) ELSE next, Tail(rest))

Resolve(path) == ResolveFrom(<<>>, path)

IsPrefix(a, b) == Len(a) <= Len(b) /\ SubSeq(b, 1, Len(a)) = a

(* root == base or base in root.parents *)
Within(base, path) == IsPrefix(base, path)

Suffix(path) ==
    LET name == path[Len(path)]
    IN IF name \in {"solo.m4b", "a.m4b", "b.m4b", "x.m4b", "1.m4b", "2.m4b"} THEN ".m4b"
       ELSE IF name = "notes.txt" THEN ".txt" ELSE ""

Rejected(message) == [ok |-> FALSE, message |-> message, root |-> <<>>, audio_files |-> <<>>]

ValidateLocalRoot(root_path, media_base) ==
    IF root_path = <<>> THEN Rejected("Local root path is required")
    ELSE LET base_path == Resolve(media_base)
             root == Resolve(root_path)
         IN IF base_path \notin FsDirs THEN Rejected("Configured media base does not exist")
            ELSE IF root \notin FsDirs THEN Rejected("Root path does not exist")
            ELSE IF root # base_path /\ ~Within(base_path, root)
              THEN Rejected("Path must be inside sandbox base")
            ELSE [ok |-> TRUE, message |-> "Valid local root path", root |-> root,
                  audio_files |-> <<>>]

(* _audio_files_in_dir: the entries of the directory that are files, a link to a
   file included, and have a supported extension; in the order of their names *)
AudioFilesInDir(directory) ==
    LET entries == {f \in FsFiles \cup {l[1] : l \in FsLinks} :
                      /\ Len(f) = Len(directory) + 1
                      /\ IsPrefix(directory, f)
                      /\ Resolve(f) \in FsFiles
                      /\ Suffix(f) = ".m4b"}
        names == <<"1.m4b", "2.m4b", "a.m4b", "b.m4b", "solo.m4b", "x.m4b">>
        at(i) == Append(directory, names[i])
    IN SelectSeq([i \in 1..Len(names) |-> at(i)], LAMBDA f : f \in entries)

ItemKinds == {"file", "folder", "book"}

ResolveCandidate(root, kind, rel_path) ==
    IF kind \notin {"file", "folder"} THEN Rejected("Invalid local item id kind")
    ELSE IF (rel_path # <<>> /\ Head(rel_path) = "/") \/ (\E i \in 1..Len(rel_path) : rel_path[i] = "..")
      THEN Rejected("Invalid local item path")
    ELSE LET absolute == Resolve(root \o rel_path)
         IN IF absolute \notin FsDirs \cup FsFiles THEN Rejected("FileNotFoundError")
            ELSE IF root # absolute /\ ~Within(root, absolute)
              THEN Rejected("Resolved path escaped configured root")
            ELSE IF kind = "file"
              THEN IF absolute \notin FsFiles THEN Rejected("Selected local item is not a file")
                   ELSE IF Suffix(absolute) # ".m4b" THEN Rejected("Unsupported file extension")
                   ELSE [ok |-> TRUE, message |-> "", root |-> root, audio_files |-> <<absolute>>]
            ELSE IF absolute \notin FsDirs THEN Rejected("Selected local item is not a directory")
            ELSE IF Len(AudioFilesInDir(absolute)) < 2
              THEN Rejected("Folder candidates require at least two supported audio files")
            ELSE [ok |-> TRUE, message |-> "", root |-> root,
                  audio_files |-> AudioFilesInDir(absolute)]

(* LocalCompletionService._normalize_rel_path: as_posix() and lstrip("/") *)
RECURSIVE NormalizeRelPath(_)
NormalizeRelPath(rel_path) ==
    IF rel_path # <<>> /\ Head(rel_path) = "/" THEN NormalizeRelPath(Tail(rel_path))
    ELSE rel_path

(* mark_pipeline_completed for a pipeline that has a local_item_id and no
   local_rel_paths: the paths it hands to mark_local_completion, and its result *)
MarkPipelineCompleted(kind, rel_path) ==
    LET parsed == kind \in {"file", "folder"}
        normalized == NormalizeRelPath(rel_path)
        folder_paths == IF parsed /\ kind = "folder" /\ normalized # <<>>
                          THEN <<normalized>> ELSE <<>>
        rel_paths == IF parsed /\ kind = "file" /\ normalized # <<>>
                       THEN <<normalized>> ELSE <<>>
    IN [ok |-> rel_paths # <<>> \/ folder_paths # <<>>,
        file_paths |-> rel_paths, folder_paths |-> folder_paths]

RootPaths ==
    {<<>>, <<"media">>, <<"media", "lib">>, <<"etc">>, <<"media", "escape">>,
     <<"media", "lib", "out", "pair">>, <<"media", "lib", "..", "..", "etc">>,
     <<"media", "lib", "book", "..", "book">>, <<"media", "missing">>,
     <<"media", "lib", "solo.m4b">>}

RelPaths ==
    {<<>>, <<"book">>, <<"solo.m4b">>, <<"book", "a.m4b">>, <<"book", "b.m4b">>,
     <<"book", "notes.txt">>, <<"out">>, <<"out", "pair">>, <<"out", "x.m4b">>,
     <<"..", "..", "etc", "pair">>, <<"book", "..", "solo.m4b">>,
     <<"/", "etc", "pair">>, <<"/", "etc", "x.m4b">>, <<"missing">>}

SandboxArgs ==
    {[fn |-> "validate_local_root", root_path |-> r, kind |-> "none", rel_path |-> <<>>] :
        r \in RootPaths}
    \cup
    {[fn |-> fn, root_path |-> LibraryRoot, kind |-> kind, rel_path |-> rel] :
        fn \in {"resolve_candidate", "mark_pipeline_completed"},
        kind \in ItemKinds, rel \in RelPaths}

SandboxInit ==
    /\ pl = NewPipeline
    /\ app = FALSE
    /\ co = NoCo
    /\ job = NoJob
    /\ procs = [i \in 1..MaxProcs |-> FreeProc]
    /\ rq = NoRq
    /\ progress_queue = 0
    /\ disk = {}
    /\ sent = <<>>
    /\ \E a \in SandboxArgs : ev = [act |-> "args", arg |-> a, by |-> "none", stale |-> "no"]
    /\ ws = NoWs

CallValidateLocalRoot ==
    /\ Pending("validate_local_root")
    /\ Call("validate_local_root",
            [root_path |-> ev.arg.root_path,
             result |-> ValidateLocalRoot(ev.arg.root_path, MediaBase)])
    /\ UNCHANGED <<pl, app, co, job, procs, rq, progress_queue, disk, sent>>

CallResolveCandidate ==
    /\ Pending("resolve_candidate")
    /\ Call("resolve_candidate",
            [kind |-> ev.arg.kind, rel_path |-> ev.arg.rel_path,
             result |-> ResolveCandidate(LibraryRoot, ev.arg.kind, ev.arg.rel_path)])
    /\ UNCHANGED <<pl, app, co, job, procs, rq, progress_queue, disk, sent>>

CallMarkPipelineCompleted ==
    /\ Pending("mark_pipeline_completed")
    /\ Call("mark_pipeline_completed",
            [kind |-> ev.arg.kind, rel_path |-> ev.arg.rel_path,
             result |-> MarkPipelineCompleted(ev.arg.kind, ev.arg.rel_path)])
    /\ UNCHANGED <<pl, app, co, job, procs, rq, progress_queue, disk, sent>>

SandboxNext ==
    \/ CallValidateLocalRoot
    \/ CallResolveCandidate
    \/ CallMarkPipelineCompleted

SpecSandbox == SandboxInit /\ [][SandboxNext]_vars

----------------------------------------------------------------------------
(* The scan cache of the local library behind GET /local/items.  The library holds
   one book, whose file name changes when the library changes; lib is the state
   of this part: the library, the completion config, the cache, and the number of
   scans so far with the library as the last scan saw it *)

MaxScans == 3

Books == {"Book 1.m4b", "Book 2.m4b"}

(* One single-file item, as scan_items builds it *)
LibraryItem(rel_path) == [rel_path |-> rel_path, filename |-> rel_path, completed |-> FALSE]

FakeScanItems(library) == <<LibraryItem(library)>>

(* _apply_completion_flags for single-file items: it sets the flag on the items
   it is given *)
ApplyCompletionFlags(items, completed_files) ==
    [i \in 1..Len(items) |->
        IF items[i].rel_path \in completed_files
          THEN [items[i] EXCEPT !.completed = TRUE] ELSE items[i]]

(* The cache after a caller changed the items it was given, if the caller had been
   given the cached items themselves *)
CacheSharedWithCaller(cached, changed) == changed

(* The cache after a caller changed the items it was given: they are deep
   copies, so the cache keeps what the scan returned *)
CacheAfterCaller(cached, changed) == cached

(* get_cached_items(refresh): scan when there is no cache or refresh is set *)
GetCachedItems(l, refresh) ==
    LET scan == refresh \/ ~l.cache.valid
        items == IF scan THEN FakeScanItems(l.library) ELSE l.cache.items
    IN [scanned |-> scan, items |-> items]

NoCache == [valid |-> FALSE, items |-> <<>>]

LibInit ==
    /\ pl = NewPipeline
    /\ app = FALSE
    /\ co = NoCo
    /\ job = NoJob
    /\ procs = [i \in 1..MaxProcs |-> FreeProc]
    /\ rq = NoRq
    /\ progress_queue = 0
    /\ disk = {}
    /\ sent = <<>>
    /\ \E b \in Books :
         ev = [act |-> "start", by |-> "none", stale |-> "no",
               arg |-> [library |-> b, completed_files |-> {}, cache |-> NoCache,
                        scans |-> 0, seen |-> b, refresh |-> FALSE, scanned |-> FALSE,
                        had_cache |-> FALSE, got |-> <<>>, result |-> <<>>]]
    /\ ws = NoWs

LibStep(name, l) ==
    /\ ev' = [act |-> name, arg |-> l, by |-> "none", stale |-> "no"]
    /\ UNCHANGED <<pl, app, co, job, procs, rq, progress_queue, disk, sent, ws>>

(* GET /local/items: get_cached_items and then _apply_completion_flags on what
   it returned *)
ListLocalItems ==
    \E refresh \in BOOLEAN :
        LET l == ev.arg
            r == GetCachedItems(l, refresh)
            changed == ApplyCompletionFlags(r.items, l.completed_files)
        IN /\ r.scanned => l.scans < MaxScans
           /\ LibStep("list_local_items",
                      [l EXCEPT !.cache = [valid |-> TRUE,
                                           items |-> CacheAfterCaller(r.items, changed)],
                                !.scans = IF r.scanned THEN @ + 1 ELSE @,
                                !.seen = IF r.scanned THEN l.library ELSE @,
                                !.refresh = refresh,
                                !.scanned = r.scanned,
                                !.had_cache = l.cache.valid,
                                !.got = r.items,
                                !.result = changed])

(* The configuration routes drop the cache when the local root changes *)
ClearScanCache ==
    /\ ev.arg.cache.valid
    /\ LibStep("clear_scan_cache", [ev.arg EXCEPT !.cache = NoCache])

(* Someone renames the book *)
LibraryChanges ==
    \E b \in Books \ {ev.arg.library} :
        LibStep("library_changes", [ev.arg EXCEPT !.library = b])

(* A book is marked completed in the completion config *)
MarkCompleted ==
    \E b \in Books \ ev.arg.completed_files :
        LibStep("mark_completed", [ev.arg EXCEPT !.completed_files = @ \cup {b}])

LibNext ==
    \/ ListLocalItems
    \/ ClearScanCache
    \/ LibraryChanges
    \/ MarkCompleted

SpecLibrary == LibInit /\ [][LibNext]_vars

----------------------------------------------------------------------------
(* LocalLibraryService.scan_items.  A file is <<directory, name>>, the directory
   given by its path below the root; the library is a set of files *)

ScanDirs == <<<<>>, <<"A">>, <<"A", "B">>, <<".h">>>>

ScanNames == <<"1.m4b", "2.m4a", ".3.m4b", "1.json">>

ScanCandidates ==
    {<<<<>>, "1.m4b">>, <<<<>>, "2.m4a">>, <<<<>>, "1.json">>,
     <<<<"A">>, "1.m4b">>, <<<<"A">>, "2.m4a">>, <<<<"A">>, ".3.m4b">>, <<<<"A">>, "1.json">>,
     <<<<"A", "B">>, "1.m4b">>, <<<<"A", "B">>, "2.m4a">>,
     <<<<".h">>, "1.m4b">>, <<<<".h">>, "2.m4a">>}

HiddenName(name) == name \in {".h", ".3.m4b"}

(* path.suffix.lower() in SUPPORTED_LOCAL_EXTENSIONS *)
SupportedName(name) == name \in {"1.m4b", "2.m4a", ".3.m4b"}

(* os.walk with dirnames[:] = [d for d in dirnames if not d.startswith(".")] *)
Walked(dir) == \A i \in 1..Len(dir) : ~HiddenName(dir[i])

(* _audio_files_in_dir *)
AudioFilesIn(files, dir) == {f \in files : f[1] = dir /\ SupportedName(f[2])}

GroupedItem(files, dir) ==
    [rel_path |-> dir, candidate_type |-> "multi_file_folder_book",
     processing_mode |-> "multi_file_grouped", can_split |-> TRUE,
     file_count |-> Cardinality(AudioFilesIn(files, dir)),
     files |-> AudioFilesIn(files, dir)]

StandaloneItem(f) ==
    [rel_path |-> Append(f[1], f[2]), candidate_type |-> "single_file_book",
     processing_mode |-> "single_file", can_split |-> FALSE,
     file_count |-> 1, files |-> {f}]

(* The first walk: every walked directory but the root that has two audio files *)
GroupedDirs(files) ==
    {dir \in SeqToSet(ScanDirs) :
        Walked(dir) /\ dir # <<>> /\ Cardinality(AudioFilesIn(files, dir)) >= 2}

(* The second walk: the files of the walked directories that are not hidden, have
   a supported extension and were not consumed by a grouped item *)
StandaloneFiles(files) ==
    {f \in files :
        /\ Walked(f[1])
        /\ ~HiddenName(f[2])
        /\ SupportedName(f[2])
        /\ f \notin UNION {AudioFilesIn(files, dir) : dir \in GroupedDirs(files)}}

(* all_items.sort(key=natural_sort_key(rel_path)): the rel_paths in that order *)
ScanOrder ==
    <<<<"1.m4b">>, <<"2.m4a">>, <<"A">>, <<"A", "1.m4b">>, <<"A", "2.m4a">>,
      <<"A", "B">>, <<"A", "B", "1.m4b">>, <<"A", "B", "2.m4a">>>>

ScanItems(files) ==
    LET items == {GroupedItem(files, dir) : dir \in GroupedDirs(files)}
                 \cup {StandaloneItem(f) : f \in StandaloneFiles(files)}
        at(i) == CHOOSE it \in items : it.rel_path = ScanOrder[i]
        present == SelectSeq([i \in 1..Len(ScanOrder) |-> i],
                             LAMBDA i : \E it \in items : it.rel_path = ScanOrder[i])
    IN [k \in 1..Len(present) |-> at(present[k])]

ScanInit ==
    /\ pl = NewPipeline
    /\ app = FALSE
    /\ co = NoCo
    /\ job = NoJob
    /\ procs = [i \in 1..MaxProcs |-> FreeProc]
    /\ rq = NoRq
    /\ progress_queue = 0
    /\ disk = {}
    /\ sent = <<>>
    /\ \E files \in SUBSET ScanCandidates :
         ev = [act |-> "args", arg |-> [fn |-> "scan_items", files |-> files],
               by |-> "none", stale |-> "no"]
    /\ ws = NoWs

CallScanItems ==
    /\ Pending("scan_items")
    /\ Call("scan_items", [files |-> ev.arg.files, result |-> ScanItems(ev.arg.files)])
    /\ UNCHANGED <<pl, app, co, job, procs, rq, progress_queue, disk, sent>>

ScanItemsNext ==
    \/ CallScanItems

SpecScan == ScanInit /\ [][ScanItemsNext]_vars

----------------------------------------------------------------------------
(* LocalLibraryService.validate_audio_file.  The file is described by what the
   resolved path is, its suffix and size, what the validation probe prints and what
   the duration probe of get_audio_duration prints.  A duration is a text, as
   ffprobe prints it: a number of seconds, "N/A", or nothing *)

FileKinds == {"missing", "unresolvable", "directory", "file"}

FileSuffixes == {".m4b", ".M4A", ".mp3"}

FileSizes == {0, 5}

(* The streams of the probe's answer; "failed" is the answer {} of a probe that
   failed or timed out *)
ProbeStreams == {"failed", "none", "video", "audio", "video+audio"}

DurationTexts == {"", "N/A", "0", "-3", "7", "9"}

(* float(x or 0.0) with except Exception: 0.0 *)
ParseDuration(text) ==
    IF text = "7" THEN 7
    ELSE IF text = "9" THEN 9
    ELSE IF text = "-3" THEN -3
    ELSE 0

(* suffix.lower() in SUPPORTED_LOCAL_EXTENSIONS *)
SupportedSuffix(suffix) == suffix \in {".m4b", ".M4A"}

(* get_audio_duration: the duration probe, 0.0 when it gives nothing *)
GetAudioDuration(f) == ParseDuration(f.duration_probe)

HasAnyStream(f) == f.streams # "failed" /\ f.streams # "none"

(* [stream for stream in streams if stream.get("codec_type") == "audio"] *)
HasAudioStream(f) == f.streams \in {"audio", "video+audio"}

Invalid(message) == [ok |-> FALSE, message |-> message, duration |-> 0]

ValidateAudioFile(f) ==
    IF f.kind = "missing" THEN Invalid("File does not exist")
    ELSE IF f.kind = "unresolvable" THEN Invalid("Unable to resolve file path")
    ELSE IF f.kind # "file" THEN Invalid("Path is not a file")
    ELSE IF ~SupportedSuffix(f.suffix) THEN Invalid("Unsupported file extension")
    ELSE IF f.size <= 0 THEN Invalid("File is empty")
    ELSE IF ~HasAudioStream(f) THEN Invalid("No audio stream detected")
    ELSE LET probed == IF f.streams = "failed" THEN 0 ELSE ParseDuration(f.format_duration)
             duration == IF probed <= 0 THEN GetAudioDuration(f) ELSE probed
         IN IF duration <= 0 THEN Invalid("Unable to determine audio duration")
            ELSE [ok |-> TRUE, message |-> "", duration |-> duration]

ValidateArgs ==
    [fn : {"validate_audio_file"}, kind : FileKinds, suffix : FileSuffixes, size : FileSizes,
     streams : ProbeStreams, format_duration : DurationTexts, duration_probe : DurationTexts]

ValidateInit ==
    /\ pl = NewPipeline
    /\ app = FALSE
    /\ co = NoCo
    /\ job = NoJob
    /\ procs = [i \in 1..MaxProcs |-> FreeProc]
    /\ rq = NoRq
    /\ progress_queue = 0
    /\ disk = {}
    /\ sent = <<>>
    /\ \E a \in ValidateArgs : ev = [act |-> "args", arg |-> a, by |-> "none", stale |-> "no"]
    /\ ws = NoWs

CallValidateAudioFile ==
    /\ Pending("validate_audio_file")
    /\ Call("validate_audio_file", [file |-> ev.arg, result |-> ValidateAudioFile(ev.arg)])
    /\ UNCHANGED <<pl, app, co, job, procs, rq, progress_queue, disk, sent>>

ValidateNext ==
    \/ CallValidateAudioFile

SpecValidate == ValidateInit /\ [][ValidateNext]_vars

----------------------------------------------------------------------------
(* The background fetch of a pipeline: routes/pipeline.py create_pipeline with its
   task start_processing, which awaits fetch_item.  The fetch works on its own
   pipeline object, co.p, which is the pipeline of the application as long as
   co.current holds; delete_pipeline drops the pipeline of the application and
   leaves the task running.  What a step sends to the clients beside the
   step-change broadcasts is kept in ev.arg: a progress update (the progress
   callback of _notify_progress) and the book update of start_processing. *)

DOWNLOADING == "downloading"
FILE_PREP == "file_prep"

FetchSources == {"abs", "local"}

(* The audio files of the item: a single file, or several that are concatenated *)
FetchFiles == {1, 2}

Sends(progress, book_update) == [progress |-> progress, book_update |-> book_update]

FetchInit ==
    /\ pl = NewPipeline
    /\ app = FALSE
    /\ co = NoCo
    /\ job = NoJob
    /\ procs = [i \in 1..MaxProcs |-> FreeProc]
    /\ rq = NoRq
    /\ progress_queue = 0
    /\ disk = {}
    /\ sent = <<>>
    /\ ev = [act |-> "init", arg |-> Sends(FALSE, FALSE), by |-> "none", stale |-> "no"]
    /\ ws = NoWs

(* The fetches that run: co.fetches, each with the await it is suspended in (pc),
   its own pipeline (p), whether that pipeline is still the pipeline of the
   application (current), and the number of audio files *)
MaxFetches == 2

Fetches == IF co.kind = "fetch" THEN co.fetches ELSE <<>>

FetchesCo(fs) ==
    IF fs = <<>> THEN NoCo
    ELSE [kind |-> "fetch", pc |-> "run", interrupted |-> "no", fetches |-> fs]


(* What the last step was, and whether a fetch took it whose pipeline is the
   pipeline of the application or one whose pipeline has been deleted *)
FetchEvent(act, x, current) ==
    /\ ev' = [act |-> act, arg |-> x, stale |-> "no",
              by |-> IF current THEN "fetch" ELSE "deleted_fetch"]
    /\ ws' = ws

(* start_processing after fetch_item has returned: nothing for a pipeline that is
   no longer the pipeline of the application, else the book update and the
   step-change broadcast *)
StartProcessingTail(c, current) ==
    IF current THEN Broadcast(c, SELECT_CUE_SOURCE, FALSE) ELSE c

(* The i-th fetch (a new one when i is beyond the list) takes a step on its own
   pipeline: c is the context it leaves, pc the await it is suspended in, "none"
   when the task has ended *)
FetchStep(act, i, c, pc, current, files, book_update) ==
    LET f == [pc |-> pc, current |-> current, p |-> c.p, files |-> files]
        fs == IF pc = "none" THEN RemoveAt(Fetches, i)
              ELSE IF i > Len(Fetches) THEN Append(Fetches, f)
              ELSE [Fetches EXCEPT ![i] = f]
    IN /\ co' = FetchesCo(IF pc = "none" /\ i > Len(Fetches) THEN Fetches ELSE fs)
       /\ pl' = IF current THEN c.p ELSE pl
       /\ sent' = c.out
       /\ FetchEvent(act, Sends(TRUE, book_update /\ current), current)
       /\ UNCHANGED <<job, procs, rq, progress_queue, disk>>

(* AppState.create_pipeline, refused while the application has a pipeline, and the
   task up to its first await: the health check of the ABS service, or concat_files
   for the files of a local folder; the fetch of a single local file has no await *)
FetchStart ==
    /\ ~app /\ Len(Fetches) < MaxFetches
    /\ \E source \in FetchSources, files \in FetchFiles :
         LET c1 == NotifyProgress(Ctx([NewPipeline EXCEPT !.source_type = source]), VALIDATING)
             i == Len(Fetches) + 1
         IN IF source = "abs"
              THEN FetchStep("fetch_start", i, c1, "validating", TRUE, files, FALSE)
            ELSE IF files > 1
              THEN FetchStep("fetch_start", i, NotifyProgress(c1, FILE_PREP), "file_prep", TRUE,
                             files, FALSE)
            ELSE FetchStep("fetch_start", i,
                           StartProcessingTail(NotifyProgress(c1, SELECT_CUE_SOURCE), TRUE),
                           "none", TRUE, files, TRUE)
    /\ app' = TRUE

(* The fetches after the pipeline of the application has been dropped and its tasks
   cancelled: the await of the download task ends with CancelledError, which no
   handler of the fetch catches; a fetch suspended elsewhere goes on *)
FetchesAfterDelete(fs) ==
    LET kept == SelectSeq(fs, LAMBDA f : ~(f.current /\ f.pc = "downloading"))
    IN [k \in 1..Len(kept) |-> [kept[k] EXCEPT !.current = FALSE]]

(* except Exception of _fetch_abs_item and of _fetch_local_item:
   restart_at_step(idle), which deletes the pipeline the application has and
   broadcasts idle with the error message *)
FetchError(act, i) ==
    /\ co' = FetchesCo(FetchesAfterDelete(RemoveAt(Fetches, i)))
    /\ pl' = NewPipeline
    /\ app' = FALSE
    /\ sent' = <<[step |-> IDLE, error |-> TRUE]>>
    /\ FetchEvent(act, Sends(FALSE, FALSE), Fetches[i].current)
    /\ UNCHANGED <<job, procs, rq, progress_queue, disk>>

(* _fetch_abs_item from the health check to the await of the download task *)
FetchValidated ==
    \E i \in 1..Len(Fetches) :
      LET f == Fetches[i]
          c == NotifyProgress(NotifyProgress(Ctx(f.p), VALIDATING), DOWNLOADING)
      IN /\ f.pc = "validating"
         /\ \/ /\ FetchStep("fetch_validated", i, [c EXCEPT !.p.tasks["download"] = "set"],
                             "downloading", f.current, f.files, FALSE)
               /\ app' = app
            \/ FetchError("fetch_validated", i)

(* _fetch_abs_item after the download: the download has returned None, or the
   single file is taken, or the files go to concat_files *)
FetchDownloaded ==
    \E i \in 1..Len(Fetches) :
      LET f == Fetches[i]
          c0 == [Ctx(f.p) EXCEPT !.p.tasks["download"] = "none"]
          c1 == NotifyProgress(c0, DOWNLOADING)
      IN /\ f.pc = "downloading"
         /\ app' = app
         /\ \/ FetchStep("fetch_downloaded", i, StartProcessingTail(c0, f.current), "none",
                          f.current, f.files, TRUE)
            \/ /\ f.files = 1
               /\ FetchStep("fetch_downloaded", i,
                            StartProcessingTail([c1 EXCEPT !.p.step = SELECT_CUE_SOURCE],
                                                f.current),
                            "none", f.current, f.files, TRUE)
            \/ /\ f.files > 1
               /\ FetchStep("fetch_downloaded", i, NotifyProgress(c1, FILE_PREP), "file_prep",
                            f.current, f.files, FALSE)

(* concat_files has returned: the end of the fetch, or its failure *)
FetchConcatDone ==
    \E i \in 1..Len(Fetches) :
      LET f == Fetches[i]
          c == IF f.p.source_type = "local"
                 THEN NotifyProgress(Ctx(f.p), SELECT_CUE_SOURCE)
                 ELSE [Ctx(f.p) EXCEPT !.p.step = SELECT_CUE_SOURCE]
      IN /\ f.pc = "file_prep"
         /\ \/ /\ FetchStep("fetch_concat", i, StartProcessingTail(c, f.current), "none",
                             f.current, f.files, TRUE)
               /\ app' = app
            \/ FetchError("fetch_concat", i)

(* routes/pipeline.py cancel_step in validating or downloading:
   AppState.delete_pipeline with ProcessingPipeline.cleanup *)
FetchCancel ==
    /\ app /\ pl.step \in {VALIDATING, DOWNLOADING}
    /\ app' = FALSE
    /\ pl' = NewPipeline
    /\ co' = FetchesCo(FetchesAfterDelete(Fetches))
    /\ sent' = <<>>
    /\ Call("deleted", Sends(FALSE, FALSE))
    /\ UNCHANGED <<job, procs, rq, progress_queue, disk>>

(* routes/pipeline.py restart_pipeline with idle: restart_at_step(idle) *)
FetchRestartIdle ==
    /\ app
    /\ app' = FALSE
    /\ pl' = NewPipeline
    /\ co' = FetchesCo(FetchesAfterDelete(Fetches))
    /\ sent' = <<[step |-> IDLE, error |-> FALSE]>>
    /\ Call("restart_done", Sends(FALSE, FALSE))
    /\ UNCHANGED <<job, procs, rq, progress_queue, disk>>

FetchNext ==
    \/ FetchStart
    \/ FetchValidated
    \/ FetchDownloaded
    \/ FetchConcatDone
    \/ FetchCancel
    \/ FetchRestartIdle

SpecFetch == FetchInit /\ [][FetchNext]_vars

----------------------------------------------------------------------------
(* Step 7 of _do_partial_scan as a function of detected_silences and of the
   silences the scan has found *)

(* A silence of one second that starts at s *)
SilenceAt(s) == <<s, s + 1>>

(* detected_silences as the detector and earlier merges leave it: by start, no
   two silences with the same start *)
DetectedSilenceLists ==
    {sq \in UNION {[1..n -> {SilenceAt(s) : s \in 0..(MaxCoord - 1)}] : n \in 0..MaxScanned} :
        \A i \in 1..Len(sq), j \in 1..Len(sq) : i < j => sq[i][1] < sq[j][1]}

(* new_silences: the silences of the scanned files, in the order of the files *)
NewSilenceLists ==
    UNION {[1..n -> {SilenceAt(s) : s \in 0..(MaxCoord - 1)}] : n \in 0..MaxScanned}

SilenceMergeArgs ==
    {[fn |-> "merge_silences", silences |-> a, new_silences |-> b] :
        a \in DetectedSilenceLists, b \in NewSilenceLists}

SilenceMergeInit ==
    /\ pl = NewPipeline
    /\ app = FALSE
    /\ co = NoCo
    /\ job = NoJob
    /\ procs = [i \in 1..MaxProcs |-> FreeProc]
    /\ rq = NoRq
    /\ progress_queue = 0
    /\ disk = {}
    /\ sent = <<>>
    /\ \E a \in SilenceMergeArgs : ev = [act |-> "args", arg |-> a, by |-> "none", stale |-> "no"]
    /\ ws = NoWs

(* The loop over new_silences followed by self.detected_silences.sort *)
CallMergeSilences ==
    /\ Pending("merge_silences")
    /\ Call("merge_silences",
            [silences |-> ev.arg.silences, new_silences |-> ev.arg.new_silences,
             result |-> SortRegions(MergeSilences(ev.arg.silences, ev.arg.new_silences))])
    /\ UNCHANGED <<pl, app, co, job, procs, rq, progress_queue, disk, sent>>

SilenceMergeNext ==
    \/ CallMergeSilences

SpecSilenceMerge == SilenceMergeInit /\ [][SilenceMergeNext]_vars


----------------------------------------------------------------------------
(* A partial scan step by step: run_partial_scan creates the task
   _do_partial_scan, which runs without suspending up to the polling loop of
   get_silence_boundaries, and is suspended there while the detector's thread
   runs.  The book is shorter than ten minutes, so no extraction segment holds a
   large scanned sub-region and _extract_segment_audio extracts a single file per
   segment.  The scan is the normal one: the sources hold no VAD detector. *)

PartialScanSteps == {PARTIAL_SCAN_PREP, PARTIAL_AUDIO_ANALYSIS, PARTIAL_VAD_ANALYSIS}

PartialScanTypes == {"normal"}

(* The original audio file, and the temp file of the k-th extraction segment *)
AudioFilePath == "audio"
PartialFile(k) == IF k = 1 THEN "partial1" ELSE "partial2"

(* ProcessingPipeline.cleanup_partial_scan_files: the files of the list are removed
   and the list is reset *)
CleanupPartialScanFiles(p) == [p EXCEPT !.partial_scan_temp_files = <<>>]

PartialScanDisk(p, d) == d \ SeqToSet(p.partial_scan_temp_files)

(* How a run of _run_single_extraction ends: the tool succeeds and has written the
   output file, fails without an output file, or fails with one *)
ExtractionOutcomes == {"ok", "failed", "failed_with_file"}

(* _extract_segment_audio for the segments from the k-th on, in the loop of step
   5: a file that was extracted is appended to _partial_scan_temp_files and to
   scan_files; a failure raises before the append *)
RECURSIVE ExtractSegmentAudio(_, _, _, _, _)
ExtractSegmentAudio(x, segs, k, outcomes, files) ==
    IF k > Len(segs) THEN [p |-> x.p, d |-> x.d, raised |-> FALSE, files |-> files]
    ELSE IF outcomes[k] = "ok"
      THEN ExtractSegmentAudio(
             [p |-> [x.p EXCEPT !.partial_scan_temp_files = Append(@, PartialFile(k))],
              d |-> x.d \cup {PartialFile(k)}],
             segs, k + 1, outcomes,
             Append(files, [path |-> PartialFile(k), offset |-> segs[k][1],
                            duration |-> segs[k][2] - segs[k][1]]))
    ELSE [p |-> x.p,
          d |-> IF outcomes[k] = "failed_with_file" THEN x.d \cup {PartialFile(k)} ELSE x.d,
          raised |-> TRUE, files |-> files]

(* except Exception of _do_partial_scan, with its finally *)
PartialScanFailed(c, d) ==
    [c |-> Broadcast([c EXCEPT !.p = [CleanupPartialScanFiles(@) EXCEPT
                                        !.step = CHAPTER_EDITING,
                                        !.tasks["partial_scan"] = "none"]],
                     CHAPTER_EDITING, TRUE),
     d |-> PartialScanDisk(c.p, d)]

(* A return inside the try of _do_partial_scan: the finally clause alone runs *)
PartialScanReturn(c) == [c EXCEPT !.p.tasks["partial_scan"] = "none"]

(* Steps 1 to 5 and the start of step 6.  state tells how the task goes on:
   "returned" without an uncovered sub-region, "failed" after an exception,
   "scanning" when the first file is handed to the detector. *)
PartialScanPrepare(c, d, i, scan_type, outcomes) ==
    LET region == ScanRegion(c.p, i)
        uncovered == GetUncoveredSubregions(AlreadyScanned(c.p, scan_type), region[1], region[2])
        segs == ExtractionSegments(uncovered)
        c1 == NotifyProgress(c, PARTIAL_SCAN_PREP)
        x == IF UseOriginalFile(segs)
               THEN [p |-> c1.p, d |-> d, raised |-> FALSE,
                     files |-> <<[path |-> AudioFilePath, offset |-> 0, duration |-> Duration]>>]
               ELSE ExtractSegmentAudio([p |-> c1.p, d |-> d], segs, 1, outcomes, <<>>)
        c2 == [c1 EXCEPT !.p = x.p]
        target_step == IF scan_type = "vad" THEN PARTIAL_VAD_ANALYSIS ELSE PARTIAL_AUDIO_ANALYSIS
    IN IF uncovered = <<>>
         THEN [c |-> PartialScanReturn(c), d |-> d, state |-> "returned", files |-> <<>>,
               segs |-> <<>>]
       ELSE IF x.raised \/ x.files = <<>>
         THEN [c |-> PartialScanFailed(c2, x.d).c, d |-> PartialScanFailed(c2, x.d).d,
               state |-> "failed", files |-> <<>>, segs |-> segs]
       ELSE [c |-> NotifyProgress(NotifyProgress(c2, PARTIAL_SCAN_PREP), target_step),
             d |-> x.d, state |-> "scanning", files |-> x.files, segs |-> segs]

(* What the detector reports for a file: the silences of the book that lie in the
   file, on the file's own timeline *)
FileSilences(file) ==
    LET inside == SelectSeq(Silences, LAMBDA s : file.offset <= s[1]
                                                  /\ s[2] <= file.offset + file.duration)
    IN [k \in 1..Len(inside) |-> <<inside[k][1] - file.offset, inside[k][2] - file.offset>>]

(* Step 6, after the detector has returned a list: the timestamps are moved to the
   global timeline *)
AdjustSilences(file_silences, global_offset) ==
    [k \in 1..Len(file_silences) |->
        <<file_silences[k][1] + global_offset, file_silences[k][2] + global_offset>>]

(* Steps 7 to 10 with the finally clause *)
PartialScanComplete(c, d, scan_type, segs, new_silences) ==
    LET c3 == [c EXCEPT !.p.detected_silences = SortRegions(MergeSilences(@, new_silences))]
        c4 == IF scan_type = "vad"
                THEN [c3 EXCEPT !.p.vad_scanned_regions = MergeRegions(@ \o ScannedRanges(segs))]
                ELSE [c3 EXCEPT !.p.normal_scanned_regions = MergeRegions(@ \o ScannedRanges(segs))]
    IN [c |-> Broadcast([c4 EXCEPT !.p = [CleanupPartialScanFiles(@) EXCEPT
                                            !.step = CHAPTER_EDITING,
                                            !.tasks["partial_scan"] = "none"]],
                        CHAPTER_EDITING, FALSE),
        d |-> PartialScanDisk(c4.p, d)]

(* The pipelines in chapter_editing the scans start from: the chapters created by
   skip_transcription from the cues 0 and 6, nothing scanned or the whole book
   scanned by smart detect *)
PartialPipelines ==
    {[EditingPipeline EXCEPT !.normal_scanned_regions = scanned,
                             !.detected_silences = IF scanned = <<>> THEN <<>> ELSE Silences] :
       scanned \in {<<>>, <<<<0, Duration>>>>}}

PartialInit ==
    /\ pl \in PartialPipelines
    /\ app = TRUE
    /\ co = NoCo
    /\ job = NoJob
    /\ procs = [i \in 1..MaxProcs |-> FreeProc]
    /\ rq = NoRq
    /\ progress_queue = 0
    /\ disk = {"segment"}
    /\ sent = <<>>
    /\ ev = [act |-> "init", arg |-> "none", by |-> "none", stale |-> "no"]
    /\ ws = NoWs

(* run_partial_scan(chapter_id, scan_type): the task is created and its handle
   stored *)
StartPartialScan ==
    /\ app /\ LoopFree /\ StageFree /\ pl.step = CHAPTER_EDITING
    /\ \E i \in 1..Len(ActiveChapters(pl)), scan_type \in PartialScanTypes :
         co' = [kind |-> "partial_scan", pc |-> "start", interrupted |-> "no",
                chapter |-> i, scan_type |-> scan_type, files |-> <<>>, idx |-> 0,
                segs |-> <<>>, new_silences |-> <<>>]
    /\ pl' = [pl EXCEPT !.tasks["partial_scan"] = "set"]
    /\ sent' = <<>>
    /\ Event("partial_start", "none")
    /\ UNCHANGED <<app, job, procs, rq, progress_queue, disk>>

(* The task runs up to its first suspension *)
StagePartialScanPrep ==
    /\ LoopFree /\ co.kind = "partial_scan" /\ co.pc = "start"
    /\ \E outcomes \in [1..MaxScanned -> ExtractionOutcomes] :
         LET r == PartialScanPrepare(Ctx(pl), disk, co.chapter, co.scan_type, outcomes)
         IN /\ pl' = r.c.p
            /\ sent' = r.c.out
            /\ disk' = r.d
            /\ co' = IF r.state = "scanning"
                       THEN [co EXCEPT !.pc = "poll", !.files = r.files, !.idx = 1,
                                       !.segs = r.segs]
                       ELSE NoCo
            /\ job' = IF r.state = "scanning"
                        THEN [NoJob EXCEPT !.kind = "detect", !.pc = "spawn"] ELSE NoJob
            /\ Event("partial_prep", r.state)
    /\ progress_queue' = 0
    /\ UNCHANGED <<app, procs, rq>>

(* One round of the polling loop: the queued entries go to audio_progress_cb *)
StagePartialScanPoll ==
    /\ LoopFree /\ co.kind = "partial_scan" /\ co.pc = "poll" /\ job.pc # "done"
    /\ progress_queue > 0
    /\ LET c == ProcessQueuedProgress(Ctx(pl), progress_queue, PARTIAL_AUDIO_ANALYSIS)
       IN pl' = c.p /\ sent' = c.out
    /\ progress_queue' = 0
    /\ Event("partial_poll", "none")
    /\ UNCHANGED <<app, co, job, procs, rq, disk>>

(* The detector's thread is done: the rest of get_silence_boundaries, and
   _do_partial_scan up to the next suspension or to its end *)
StagePartialScanFile ==
    /\ LoopFree /\ co.kind = "partial_scan" /\ co.pc = "poll" /\ job.pc = "done"
    /\ LET c1 == NotifyProgress(ProcessQueuedProgress(Ctx(pl), progress_queue,
                                                      PARTIAL_AUDIO_ANALYSIS),
                                PARTIAL_AUDIO_ANALYSIS)
           file == co.files[co.idx]
           file_silences == IF job.result = "list" THEN FileSilences(file) ELSE <<>>
           new_silences == co.new_silences \o AdjustSilences(file_silences, file.offset)
           done == PartialScanComplete(c1, disk, co.scan_type, co.segs, new_silences)
       IN IF job.result = "none"
            THEN /\ pl' = PartialScanReturn(Ctx(pl)).p
                 /\ sent' = <<>>
                 /\ co' = NoCo
                 /\ job' = NoJob
                 /\ disk' = disk
                 /\ Event("partial_file", "cancelled")
          ELSE IF c1.p.step # PARTIAL_AUDIO_ANALYSIS
            THEN /\ pl' = PartialScanReturn(c1).p
                 /\ sent' = c1.out
                 /\ co' = NoCo
                 /\ job' = NoJob
                 /\ disk' = disk
                 /\ Event("partial_file", "cancelled")
          ELSE IF co.idx < Len(co.files)
            THEN /\ pl' = c1.p
                 /\ sent' = c1.out
                 /\ co' = [co EXCEPT !.idx = @ + 1, !.new_silences = new_silences]
                 /\ job' = [NoJob EXCEPT !.kind = "detect", !.pc = "spawn"]
                 /\ disk' = disk
                 /\ Event("partial_file", "next")
          ELSE /\ pl' = done.c.p
               /\ sent' = done.c.out
               /\ co' = NoCo
               /\ job' = NoJob
               /\ disk' = done.d
               /\ Event("partial_file", "complete")
    /\ progress_queue' = 0
    /\ UNCHANGED <<app, procs, rq>>

(* routes/pipeline.py cancel_step -> restart_at_step -> cancel_processing up to the
   loop over the processes.  The partial scan task is cancelled and awaited: it
   ends at its suspension point with CancelledError, runs
   cleanup_partial_scan_files and its finally clause; cancel_processing then calls
   cleanup_partial_scan_files again. *)
PartialCancelRequest ==
    /\ app /\ LoopFree
    /\ pl' = CleanupPartialScanFiles(CancelTasks(pl))
    /\ disk' = PartialScanDisk(pl, disk)
    /\ co' = NoCo
    /\ rq' = [pc |-> "procs", target |-> CancelTarget(pl), by |-> "cancel",
              then |-> "none", via |-> "cancel", error |-> FALSE, arrived |-> pl.step]
    /\ sent' = <<>>
    /\ Event("restart_begin", CancelTarget(pl))
    /\ UNCHANGED <<app, job, procs, progress_queue>>

PartialRestartFinish ==
    /\ rq.pc = "ladder"
    /\ LET c == Ctx(RestartLadder(pl, rq.target))
       IN /\ pl' = c.p
          /\ sent' = Broadcast(c, c.p.step, rq.error).out
    /\ disk' = LadderDisk(disk, rq.target)
    /\ rq' = NoRq
    /\ Event("restart_done", rq.target)
    /\ UNCHANGED <<app, co, job, procs, progress_queue>>

(* The steps of the program itself: the task, the detector's thread, the tool, and
   a cancellation under way *)
PartialProgram ==
    \/ StagePartialScanPrep
    \/ StagePartialScanPoll
    \/ StagePartialScanFile
    \/ ThreadSpawn
    \/ ThreadProgress
    \/ ProcExit
    \/ ThreadReapDetect
    \/ JobDiscard
    \/ RestartTerminate
    \/ RestartClear
    \/ PartialRestartFinish

PartialNext ==
    \/ StartPartialScan
    \/ PartialCancelRequest
    \/ PartialProgram

SpecPartial == PartialInit /\ [][PartialNext]_vars

(* The event loop runs a task that is ready, a thread that can step does, and a
   tool that runs ends: the requests of the user are under no obligation *)
PartialFairness ==
    /\ WF_vars(StagePartialScanPrep)
    /\ WF_vars(StagePartialScanPoll)
    /\ WF_vars(StagePartialScanFile)
    /\ WF_vars(ThreadSpawn)
    /\ WF_vars(ProcExit)
    /\ WF_vars(ThreadReapDetect)
    /\ WF_vars(JobDiscard)
    /\ WF_vars(RestartTerminate)
    /\ WF_vars(RestartClear)
    /\ WF_vars(PartialRestartFinish)

SpecPartialFair == SpecPartial /\ PartialFairness

----------------------------------------------------------------------------
(* Properties of restart and cancellation *)

RestartReturned == ev.act = "restart_done" /\ ev.arg # IDLE

(* C1: when restart_at_step(s) returns, for a restart step s other than idle, the
   pipeline step equals s and the list of running process handles is empty *)
C1_RestartLeavesStepAndNoProcesses ==
    RestartReturned => (pl.step = ev.arg /\ pl.running_processes = {})

(* The part of C1 about the step: it equals s when restart_at_step(s) returns *)
C1_RestartLeavesStep == RestartReturned => pl.step = ev.arg

(* C2: when a restart or cancel issues its step-change broadcast, every tool
   process that was registered has exited, and every task handle of the pipeline is
   cleared and its task has finished *)
C2_CancellationCompleteAtBroadcast ==
    (RestartReturned /\ sent # <<>>) =>
        /\ \A i \in 1..MaxProcs : procs[i].st # "running"
        /\ \A k \in TaskKinds : pl.tasks[k] = "none"
        /\ ~(job.kind = "asr" /\ job.pc = "run")

(* A step of a stage coroutine that was suspended while a restart or a cancel
   changed the pipeline step *)
StaleStageStep == ev'.act \in {"poll", "finish"} /\ ev'.stale # "no"

(* C3: a stage that resumes after a restart or cancel changed the step writes none
   of segment_files, trimmed_segment_files, transcriptions, detected_silences, the
   coverage maps, cues and chapters, does not change the step, and does not call
   restart_at_step *)
C3_StaleStageDoesNothing ==
    [][StaleStageStep =>
         /\ pl'.segment_files = pl.segment_files
         /\ pl'.trimmed_segment_files = pl.trimmed_segment_files
         /\ pl'.transcriptions = pl.transcriptions
         /\ pl'.detected_silences = pl.detected_silences
         /\ pl'.normal_scanned_regions = pl.normal_scanned_regions
         /\ pl'.vad_scanned_regions = pl.vad_scanned_regions
         /\ pl'.cues = pl.cues
         /\ pl'.chapters = pl.chapters
         /\ pl'.step = pl.step
         /\ ev'.by # "stage_restart"]_vars

(* The user cancelled while the extraction started by select_cue_set after a smart
   detect was running, and both the cancel request and the extraction coroutine
   have finished *)
CancelledExtractionOver ==
    /\ ev.act = "finish" /\ ev.arg = "extract_sel" /\ ev.stale = "cancel" /\ ev.by = "none"
    /\ pl.initial_chapter_selection_available

(* C4: after a cancel during segment extraction the tool has terminated,
   segment_files is the empty list, the step is cue_set_selection and no segment
   file is left in the temp directory *)
C4_CancelDuringExtraction ==
    CancelledExtractionOver =>
        /\ \A i \in 1..MaxProcs : procs[i].st # "running"
        /\ pl.segment_files = <<>>
        /\ pl.step = CUE_SET_SELECTION
        /\ "segment" \notin disk

(* C5: create_pipeline with a pipeline in place fails and leaves the pipeline and
   what it runs unchanged; without a pipeline (at the start, after delete_pipeline,
   after a restart to idle) it succeeds and installs a new pipeline *)
C5_OnePipeline ==
    [][ev'.act \in {"created", "create_refused"} =>
         IF app
           THEN ev'.act = "create_refused" /\ UNCHANGED <<pl, app, co, job, procs, disk>>
           ELSE ev'.act = "created" /\ app' /\ pl' = [NewPipeline EXCEPT !.step = VALIDATING]]_vars

(* A creation is refused while the pipeline that an earlier creation installed is
   in cue_set_selection *)
C5_Witness == ev.act = "create_refused" /\ app /\ pl.step = CUE_SET_SELECTION

(* The value the asynchronous operation hands to the pipeline for the thread's
   result: extract_segments turns an empty list into None *)
OperationResult(kind, r) == IF kind = "extract" /\ r = "empty" THEN "none" ELSE r

(* C6: a silence detection or segment extraction whose process was terminated or
   killed by the supervisor returns None, never a list *)
C6_CancelledReturnsNone ==
    (job.kind \in {"detect", "extract"} /\ job.pc = "done" /\ job.cancelled) =>
        OperationResult(job.kind, job.result) = "none"

(* What C7 states restart_at_step(s) does to the pipeline *)
C7_Expected(p, s) ==
    LET n == RestartOrdinal(s)
        a == [p EXCEPT !.step = s]
        b == IF n <= RestartOrdinal(CONFIGURE_ASR)
               THEN [a EXCEPT !.trimmed_segment_files = <<>>, !.transcriptions = <<>>,
                              !.chapters = <<>>, !.history_stack = <<>>, !.history_index = -1]
               ELSE a
        c == IF n <= RestartOrdinal(CUE_SET_SELECTION)
               THEN [b EXCEPT !.segment_files = <<>>, !.cues = <<>>]
               ELSE b
        d == IF n <= RestartOrdinal(SELECT_CUE_SOURCE)
               THEN [c EXCEPT !.detected_silences = <<>>, !.normal_scanned_regions = <<>>,
                              !.vad_scanned_regions = <<>>,
                              !.initial_chapter_selection_available = FALSE]
               ELSE c
    IN d

(* C7: restart_at_step(s) clears exactly the data of the stages after s *)
C7_RestartFrame ==
    [][(rq.pc = "ladder" /\ rq.target # IDLE /\ ev'.act = "restart_done") =>
         pl' = C7_Expected(pl, rq.target)]_vars

----------------------------------------------------------------------------
(* Properties of the chapter history *)

RECURSIVE UndoN(_, _)
UndoN(p, n) == IF n = 0 THEN p ELSE UndoN(Undo(p), n - 1)

RECURSIVE RedoN(_, _)
RedoN(p, n) == IF n = 0 THEN p ELSE RedoN(Redo(p), n - 1)

(* C8: in every history state, n undos followed by n redos, for every n up to the
   number of undoable operations, give back the same chapter list and the same
   history cursor *)
C8_UndoRedoRoundTrip ==
    \A n \in 0..(pl.history_index + 1) :
        LET q == RedoN(UndoN(pl, n), n)
        IN q.chapters = pl.chapters /\ q.history_index = pl.history_index

(* Two operations can be undone, one of them an insert, and undoing them changes
   the chapter list *)
C8_Witness ==
    /\ pl.history_index >= 1
    /\ \E i \in 1..(pl.history_index + 1) : pl.history_stack[i].type = "insert"
    /\ UndoN(pl, 2).chapters # pl.chapters
    /\ ev.act = "redo" /\ ev.arg = "done"

(* C9: in every history state and for every operation, add_to_history(op) leaves
   the entries up to and including the cursor followed by op, the cursor on op,
   can_redo false and can_undo true *)
C9_AddDiscardsRedoTail ==
    \A op \in Operations(pl.chapters) :
        LET q == AddToHistory(pl, op)
        IN /\ q.history_stack = SubSeq(pl.history_stack, 1, pl.history_index + 1) \o <<op>>
           /\ q.history_index = Len(q.history_stack) - 1
           /\ q.history_stack[q.history_index + 1] = op
           /\ ~CanRedo(q)
           /\ CanUndo(q)

(* An operation was recorded after every recorded operation had been undone: the
   undone entries are gone and the new operation is the only entry *)
C9_Witness ==
    /\ ev.act = "add_to_history" /\ ev.arg = "tail_discarded"
    /\ pl.history_index = 0
    /\ Len(pl.history_stack) = 1

----------------------------------------------------------------------------
(* Properties of the coverage maps *)

(* Sorted by start, and every interval ends before the next one starts *)
SortedAndDisjoint(regions) ==
    \A i \in 1..(Len(regions) - 1) :
        /\ regions[i][1] < regions[i + 1][1]
        /\ regions[i][2] < regions[i + 1][1]

(* C10: in every reachable state both coverage maps are sorted by interval start
   and no two of their intervals overlap or touch *)
C10_CoverageMapsMerged ==
    /\ SortedAndDisjoint(pl.normal_scanned_regions)
    /\ SortedAndDisjoint(pl.vad_scanned_regions)

(* A normal partial scan has added a range that touched the map: the map is one
   interval that a single scan of this book cannot produce *)
C10_Witness ==
    /\ ev.act = "partial_scan" /\ ev.arg = "normal"
    /\ pl.normal_scanned_regions = <<<<0, 35>>>>
    /\ Len(pl.vad_scanned_regions) = 1

(* The unit of time from k to k + 1 lies in the interval r *)
InInterval(k, r) == r[1] <= k /\ k + 1 <= r[2]

InSome(k, regions) == \E i \in 1..Len(regions) : InInterval(k, regions[i])

(* C11: for every list of scanned intervals and every start < end, the intervals
   _get_uncovered_subregions returns lie inside [start, end], are pairwise
   disjoint, do not meet the scanned intervals, and together with the scanned
   intervals cover all of [start, end] *)
C11_UncoveredIsComplement ==
    ev.act = "get_uncovered_subregions" =>
        LET a == ev.arg
            u == a.result
        IN /\ \A i \in 1..Len(u) : a.start <= u[i][1] /\ u[i][1] <= u[i][2] /\ u[i][2] <= a.end
           /\ \A i, j \in 1..Len(u) :
                 i < j => \A k \in Coords : ~(InInterval(k, u[i]) /\ InInterval(k, u[j]))
           /\ \A k \in Coords : ~(InSome(k, u) /\ InSome(k, a.scanned))
           /\ \A k \in a.start..(a.end - 1) : InSome(k, u) \/ InSome(k, a.scanned)

(* Two scanned intervals given out of order, one of them reaching over the start of
   the region, leave two uncovered intervals *)
C11_Witness ==
    /\ ev.act = "get_uncovered_subregions"
    /\ ev.arg.scanned = <<<<2, 3>>, <<0, 1>>>>
    /\ ev.arg.start = 0 /\ ev.arg.end = 4
    /\ ev.arg.result = <<<<1, 2>>, <<3, 4>>>>

(* The claim's already_scanned: the VAD map alone for a vad scan, both maps for a
   silence scan *)
ClaimScanned(p, scan_type) ==
    IF scan_type = "vad" THEN p.vad_scanned_regions
    ELSE p.normal_scanned_regions \o p.vad_scanned_regions

(* The region of the i-th active chapter lies entirely inside already_scanned:
   its two end points and every second between them *)
RegionCovered(p, i, scan_type) ==
    LET region == ScanRegion(p, i)
        scanned == ClaimScanned(p, scan_type)
    IN /\ \A t \in {region[1], region[2]} :
            \E j \in 1..Len(scanned) : scanned[j][1] <= t /\ t <= scanned[j][2]
       /\ \A k \in region[1]..(region[2] - 1) : InSome(k, scanned)

(* C12: a partial scan of a chapter whose region is entirely inside already_scanned
   runs no tool and changes neither detected_silences, nor a coverage map, nor the
   step *)
C12_CoveredScanDoesNothing ==
    [][(ev'.act = "partial_scan" /\ pl.step = CHAPTER_EDITING
          /\ RegionCovered(pl, ev'.chapter, ev'.arg)) =>
         /\ ev'.tools = 0
         /\ procs' = procs
         /\ pl'.detected_silences = pl.detected_silences
         /\ pl'.normal_scanned_regions = pl.normal_scanned_regions
         /\ pl'.vad_scanned_regions = pl.vad_scanned_regions
         /\ pl'.step = pl.step]_vars

(* A silence scan ran no tool although no silence scan has covered anything: the
   region is covered by the VAD map. A chapter is deleted, so the region is the
   one between active chapters *)
C12_Witness ==
    /\ ev.act = "partial_scan" /\ ev.arg = "normal" /\ ev.tools = 0
    /\ pl.normal_scanned_regions = <<>>
    /\ pl.vad_scanned_regions # <<>>
    /\ \E i \in 1..Len(pl.chapters) : pl.chapters[i].deleted

(* C13: right after a partial scan that completed, the same scan of the same
   chapter finds no uncovered sub-region: it starts no tool, adds no silence and
   leaves both coverage maps as they are, whether or not a tool would fail *)
C13_RepeatedScanAddsNothing ==
    (ev.act = "partial_scan" /\ ~ev.failed /\ pl.step = CHAPTER_EDITING) =>
        /\ ScanTools(pl, ev.chapter, ev.arg) = 0
        /\ \A failed \in BOOLEAN :
             LET again == PartialScan(Ctx(pl), ev.chapter, ev.arg, failed).p
             IN /\ again.detected_silences = pl.detected_silences
                /\ again.normal_scanned_regions = pl.normal_scanned_regions
                /\ again.vad_scanned_regions = pl.vad_scanned_regions

(* A VAD scan that ran its tools and completed, after a silence scan had covered
   a region and found silences *)
C13_Witness ==
    /\ ev.act = "partial_scan" /\ ev.arg = "vad" /\ ev.tools > 0 /\ ~ev.failed
    /\ pl.normal_scanned_regions # <<>>
    /\ pl.vad_scanned_regions # <<>>
    /\ pl.detected_silences # <<>>

(* The source files and their backups, apart from the temp directory *)
SourceFiles(d) == d \ TempFiles

(* The two conditions of a grouped write: one selected chapter per file, each at
   most 0.75 s from the start of its file *)
GroupedAligned(p) ==
    LET selected == SelectedChapters(p.chapters)
    IN /\ Len(selected) = Len(p.local_audio_files)
       /\ \A i \in 1..Len(selected) :
            /\ p.file_starts # None
            /\ i \in DOMAIN p.file_starts
            /\ Abs(selected[i].timestamp - p.file_starts[i]) <= Tolerance

(* C14: a submit of a local grouped book changes a source file or makes a backup
   only if there is one selected chapter per file and every selected timestamp is
   at most 0.75 s from the start of its file; if one of the two fails, the submit
   fails and the source files and backups are as before *)
C14_GroupedWriteNeedsAlignment ==
    [][(/\ ev'.act = "submit" /\ ev'.arg \in {"completed", "failed"}
        /\ pl.source_type = "local" /\ pl.local_media_layout = "multi_file_grouped")
       => /\ SourceFiles(disk') # SourceFiles(disk) => GroupedAligned(pl)
          /\ ~GroupedAligned(pl) => ev'.arg = "failed" /\ disk' = disk]_vars

(* A grouped write went through with a selected chapter exactly 0.75 s away from
   the start of its file, and with backups *)
C14_Witness ==
    /\ ev.act = "submit" /\ ev.arg = "completed"
    /\ pl.local_media_layout = "multi_file_grouped"
    /\ \E i \in 1..Len(SelectedChapters(pl.chapters)) :
         Abs(SelectedChapters(pl.chapters)[i].timestamp - pl.file_starts[i]) = Tolerance
    /\ {WrittenMark[1], WrittenMark[2], BackupMark[1], BackupMark[2]} \subseteq disk

(* C15: the step becomes completed only by a submit that succeeded and that was
   issued in chapter_editing or reviewing; a submit issued in another step changes
   nothing; a submit that fails leaves the step as it is, not at completed, and
   leaves the temp directory as it is *)
C15_CompletedOnlyBySubmit ==
    [][/\ (app' /\ pl'.step = COMPLETED /\ ~(app /\ pl.step = COMPLETED))
           => /\ ev'.act = "submit" /\ ev'.arg = "completed"
              /\ ev'.issued \in {CHAPTER_EDITING, REVIEWING}
       /\ (ev'.act = "submit" /\ ev'.arg = "rejected")
           => /\ pl.step \notin {CHAPTER_EDITING, REVIEWING}
              /\ pl' = pl /\ disk' = disk
       /\ (ev'.act = "submit" /\ ev'.arg \in {"completed", "failed", "uploading"})
           => ev'.issued \in {CHAPTER_EDITING, REVIEWING}
       /\ (ev'.act = "submit" /\ ev'.arg = "failed")
           => /\ pl'.step = pl.step /\ pl'.step # COMPLETED
              /\ disk' \cap TempFiles = disk \cap TempFiles]_vars

(* An upload issued in reviewing succeeded after a restart had moved the step to
   configure_asr: the step is completed and the temp directory is gone *)
C15_Witness ==
    /\ ev.act = "submit" /\ ev.arg = "completed" /\ ev.issued = REVIEWING
    /\ pl.step = COMPLETED /\ pl.source_type = "abs"
    /\ pl.chapters = <<>>
    /\ disk \cap TempFiles = {}

(* C16: once the step of the pipeline is completed it stays completed as long as
   the pipeline exists *)
C16_CompletedIsTerminal ==
    [][(app /\ pl.step = COMPLETED /\ app') => pl'.step = COMPLETED]_vars

(* C17: whenever the pipeline has chapters, their timestamps in list order do not
   decrease and each is less than the duration of the book *)
C17_ChaptersOrdered ==
    (app /\ pl.chapters # <<>>) =>
        /\ \A i \in 1..(Len(pl.chapters) - 1) :
             pl.chapters[i].timestamp <= pl.chapters[i + 1].timestamp
        /\ \A i \in 1..Len(pl.chapters) : pl.chapters[i].timestamp < Duration

(* C18: every consumer receives the progress updates of the stage in the order in
   which the stage produced them *)
C18_ProgressInProductionOrder ==
    \A c \in DOMAIN ws.delivered :
        \A i, j \in 1..Len(ws.delivered[c]) :
            (/\ i < j
             /\ ws.delivered[c][i].type = "progress_update"
             /\ ws.delivered[c][j].type = "progress_update")
                => ws.delivered[c][i].n < ws.delivered[c][j].n

(* The last progress update of step s among the messages scheduled; the update
   numbered 0, which nothing produces, when there is none *)
FinalProgress(s) ==
    LET ups == {k \in 1..Len(ws.msgs) :
                  ws.msgs[k].type = "progress_update" /\ ws.msgs[k].step = s}
    IN IF ups = {} THEN ProgressUpdate(s, 0)
       ELSE ws.msgs[CHOOSE k \in ups : \A l \in ups : l <= k]

(* C19: no consumer receives the final progress update of trimming after the step
   change that leaves trimming, and the consumer that was connected when the stage
   began has received it before that step change *)
C19_StepChangeAfterFinalProgress ==
    \A c \in DOMAIN ws.delivered :
        \A i \in 1..Len(ws.delivered[c]) :
            (ws.delivered[c][i].type = "step_change" /\ ws.delivered[c][i].from = TRIMMING)
                => /\ \A j \in (i + 1)..Len(ws.delivered[c]) :
                        ws.delivered[c][j] # FinalProgress(TRIMMING)
                   /\ c = ws.connections[1] => \E j \in 1..(i - 1) :
                                 ws.delivered[c][j] = FinalProgress(TRIMMING)

(* The cues of the included sources that exist, in the order of the call *)
IncludedCues(a) ==
    UNION {SeqToSet(a.cue_sources[a.include_unaligned[i]]) :
             i \in {k \in 1..Len(a.include_unaligned) :
                      a.include_unaligned[k] \in 1..Len(a.cue_sources)}}

(* C20: when a cue set is selected with the unaligned cues of external sources
   included, the cue list is sorted ascending, contains every selected timestamp,
   contains beside them only external cues farther than 5 s from every selected
   timestamp, and no added external cue is within 5 s of another cue of the list;
   selected 10, 100, 500 with external 11, 200, 500.2 gives 10, 100, 200, 500 *)
C20_MergedCues ==
    (ev.act = "select_cue_set" /\ ev.arg.include_unaligned # <<>>) =>
        LET a == ev.arg
            r == a.result
            selected == SeqToSet(a.timestamps)
        IN /\ \A i, j \in 1..Len(r) : i < j => r[i] <= r[j]
           /\ \A t \in selected : \E i \in 1..Len(r) : r[i] = t
           /\ \A i \in 1..Len(r) :
                \/ r[i] \in selected
                \/ /\ r[i] \in IncludedCues(a)
                   /\ \A t \in selected : Abs(r[i] - t) > MergeTolerance
           /\ \A i, j \in 1..Len(r) :
                (i # j /\ r[i] \notin selected) => Abs(r[i] - r[j]) > MergeTolerance
           /\ (a.timestamps = MergeExample.timestamps
                 /\ a.cue_sources = MergeExample.cue_sources
                 /\ a.include_unaligned = MergeExample.include_unaligned)
                => r = <<100, 1000, 2000, 5000>>

(* Two sources are included: one cue is dropped as 5 s from a selected timestamp,
   one is added, and a cue of the other source is dropped as within 5 s of the
   added one *)
C20_Witness ==
    /\ ev.act = "select_cue_set"
    /\ ev.arg.timestamps = <<100>>
    /\ ev.arg.cue_sources = <<<<150, 200>>, <<151>>>>
    /\ ev.arg.include_unaligned = <<2, 1>>
    /\ ev.arg.result = <<100, 151>>

(* The provider has failed or its list has not one title for each selected
   chapter *)
CleanupRefused ==
    ev'.arg # "cancelled" /\
    (ev'.failed \/ Len(ev'.answer) # Len(SelectSeq(pl.chapters, LAMBDA ch : ch.selected)))

(* C21: an AI cleanup ends in chapter_editing; when it succeeds the history holds
   exactly one entry more than the part of it that was not undone, and one undo
   gives back the title and the selection of every chapter; when the provider
   fails or answers with a list of another length, the chapters and the history are
   unchanged *)
C21_CleanupAllOrNothing ==
    [][(co.kind = "ai_cleanup" /\ ev'.act = "ai_cleanup") =>
          (/\ pl'.step = CHAPTER_EDITING
           /\ (ev'.arg = "applied") =>
                 (/\ ~CleanupRefused
                  /\ pl'.history_index = pl.history_index + 1
                  /\ Len(pl'.history_stack) = pl.history_index + 2
                  /\ Undo(pl').chapters = pl.chapters
                  /\ Undo(pl').history_index = pl.history_index)
           /\ (ev'.arg # "applied") =>
                 (/\ pl'.chapters = pl.chapters
                  /\ pl'.history_stack = pl.history_stack
                  /\ pl'.history_index = pl.history_index)
           /\ CleanupRefused => ev'.arg = "failed")]_vars

(* A cleanup of two chapters has replaced one title and deselected the other
   chapter, emptying its title, in one history entry *)
C21_Witness ==
    /\ ev.act = "ai_cleanup" /\ ev.arg = "applied"
    /\ Len(pl.chapters) = 2
    /\ pl.chapters[1].current_title = 2 /\ pl.chapters[1].selected
    /\ ~pl.chapters[2].selected
    /\ pl.history_index = 1
    /\ Len(pl.history_stack[2].sub) = 2

(* C22: when the transcription has returned a number of titles that differs from
   the number of cues, no chapter is created, the step is configure_asr and a step
   change with an error message has been sent *)
C22_TitleCountMismatchRestarts ==
    (ev.act = "transcribed" /\ Len(ev.arg) # Len(pl.cues)) =>
        /\ pl.chapters = <<>>
        /\ pl.step = CONFIGURE_ASR
        /\ \E i \in 1..Len(sent) : sent[i].step = CONFIGURE_ASR /\ sent[i].error

(* The silence detection ends with the result None and no restart or cancel was
   asked for while it ran: the tool has reported missing input *)
DetectInputMissing ==
    /\ co.kind = "detect" /\ job.pc = "done" /\ job.result = "none"
    /\ co.interrupted = "no" /\ rq.pc = "none"
    /\ ev'.act = "finish" /\ ev'.arg = "detect"

(* C23: when the tool has reported missing input during the silence detection and
   no cancel or restart was requested, the end of the stage leaves no pipeline
   (the restart at idle) and sends a step change to idle with an error message *)
C23_MissingInputRestartsAtIdle ==
    [][DetectInputMissing =>
         /\ ~app'
         /\ \E i \in 1..Len(sent') : sent'[i].step = IDLE /\ sent'[i].error]_vars

(* C24: after write_single_file_chapters the book file has its new chapters only
   if nothing failed, and its old content when ffmpeg failed; the metadata temp
   file and the .achew.tmp file do not exist, whichever way the call ended; with
   create_backup the .achew.bak file held the old content when ffmpeg was started *)
C24_WriteSingleFileIsSafe ==
    ev.act = "write_single_file_chapters" =>
        LET a == ev.arg
            r == a.result
        IN /\ r.fs.orig = "new" => ~r.raised
           /\ r.raised => r.fs.orig = a.fs.orig
           /\ ~r.fs.meta /\ r.fs.tmp = "absent"
           /\ (a.create_backup /\ r.started) => r.at_start.bak = "old"

(* C25: the metadata built for a non-empty chapter list has one entry per chapter,
   in ascending order of START; the first entry has START = 0 and the title of
   the chapter that starts first; each END is the START of the next entry; the
   last END is the duration in milliseconds, or the last START if that is larger;
   and START <= END in every entry *)
C25_MetadataWellFormed ==
    (ev.act = "build_ffmetadata" /\ ev.arg.chapters # <<>>) =>
        LET chapters == ev.arg.chapters
            m == ev.arg.result
            n == Len(m)
            first == CHOOSE i \in 1..Len(chapters) :
                       \A j \in 1..Len(chapters) :
                           \/ chapters[i].start < chapters[j].start
                           \/ chapters[i].start = chapters[j].start /\ i <= j
        IN /\ ~ev.arg.raised
           /\ n = Len(chapters)
           /\ \A i \in 1..(n - 1) : m[i].START <= m[i + 1].START /\ m[i].END = m[i + 1].START
           /\ m[1].START = 0
           /\ m[1].title = SafeTitle(chapters[first].title)
           /\ m[n].END = Max(RoundMs(ev.arg.duration), m[n].START)
           /\ \A i \in 1..n : m[i].START <= m[i].END

(* The first chapter is moved to 0, the input is out of order, and the duration
   lies before the last chapter's start *)
C25_Witness ==
    /\ ev.act = "build_ffmetadata"
    /\ Len(ev.arg.chapters) = 2
    /\ ev.arg.chapters[1].start > ev.arg.chapters[2].start
    /\ ev.arg.chapters[2].start > 0
    /\ ev.arg.chapters[1].title # ev.arg.chapters[2].title
    /\ RoundMs(ev.arg.duration) < ev.arg.result[2].START

(* A directory is the pipeline's temp workspace or lies below it *)
InWorkspace(dir) == Len(dir) >= 2 /\ SubSeq(dir, 1, 2) = TempDir

(* C26: _run_concat_files creates its list file and its output in no directory
   that holds one of the input files, and when the requested output directory is
   the directory of the input files, the directory it uses instead lies in the
   pipeline's temp workspace *)
C26_ConcatLeavesSourceDirectory ==
    ev.act = "run_concat_files" =>
        LET a == ev.arg
            r == a.result
        IN /\ \A i \in 1..Len(a.input_dirs) : a.input_dirs[i] \notin r.created
           /\ r.redirected => InWorkspace(r.target_dir)

(* A decoded relative path that must be refused: it starts with /, has a ..
   component, or resolves to a place outside the configured root *)
EscapesRoot(rel_path) ==
    \/ rel_path # <<>> /\ Head(rel_path) = "/"
    \/ \E i \in 1..Len(rel_path) : rel_path[i] = ".."
    \/ ~Within(LibraryRoot, Resolve(LibraryRoot \o rel_path))

(* C27: validate_local_root accepts a root only if its resolved path is the
   resolved sandbox base or lies inside it; resolve_candidate and
   mark_pipeline_completed, the two places that decode an item id, refuse a
   decoded path that escapes the root; and every audio file resolve_candidate
   accepts resolves to a place inside the root *)
C27_NoPathOutsideSandbox ==
    /\ (ev.act = "validate_local_root" /\ ev.arg.result.ok) =>
           Within(Resolve(MediaBase), Resolve(ev.arg.root_path))
    /\ (ev.act = "resolve_candidate" /\ EscapesRoot(ev.arg.rel_path)) => ~ev.arg.result.ok
    /\ (ev.act = "resolve_candidate" /\ ev.arg.result.ok) =>
           \A i \in 1..Len(ev.arg.result.audio_files) :
               Within(LibraryRoot, Resolve(ev.arg.result.audio_files[i]))
    /\ (ev.act = "mark_pipeline_completed" /\ EscapesRoot(ev.arg.rel_path)) => ~ev.arg.result.ok

(* C28: what get_cached_items returns is what the most recent scan returned, with
   nothing a caller changed in earlier results; and it scans only when there is
   no cache yet or refresh is set *)
C28_CachedItemsAreLastScan ==
    ev.act = "list_local_items" =>
        /\ ev.arg.got = FakeScanItems(ev.arg.seen)
        /\ ev.arg.scanned <=> (ev.arg.refresh \/ ~ev.arg.had_cache)

(* A call without refresh answers from the cache after the library changed and
   after an earlier caller set the completed flag on its items *)
C28_Witness ==
    /\ ev.act = "list_local_items"
    /\ ~ev.arg.scanned
    /\ ev.arg.seen # ev.arg.library
    /\ ev.arg.seen \in ev.arg.completed_files
    /\ ev.arg.result[1].completed
    /\ ev.arg.scans = 2

(* The files scan_items has to count: not hidden, not below a hidden directory,
   with a supported extension *)
VisibleAudio(files) == {f \in files : Walked(f[1]) /\ ~HiddenName(f[2]) /\ SupportedName(f[2])}

(* C29: for every directory that is not hidden, the root included, with two or
   more visible audio files scan_items returns one grouped item (multi_file_grouped,
   can_split) that lists exactly those files; every other visible audio file is
   the one file of exactly one single-file item; no file is in two items; and no
   item lists or counts a hidden file or a file that is not audio *)
C29_ScanClassifies ==
    ev.act = "scan_items" =>
        LET files == ev.arg.files
            items == SeqToSet(ev.arg.result)
            audio == VisibleAudio(files)
            in_dir(dir) == {f \in audio : f[1] = dir}
            grouped == {dir \in SeqToSet(ScanDirs) : Cardinality(in_dir(dir)) >= 2}
        IN /\ \A dir \in grouped :
                 \E it \in items :
                     /\ it.rel_path = dir
                     /\ it.processing_mode = "multi_file_grouped"
                     /\ it.can_split
                     /\ it.files = in_dir(dir)
                     /\ it.file_count = Cardinality(in_dir(dir))
           /\ \A f \in audio :
                 f[1] \notin grouped =>
                     \E it \in items :
                         it.processing_mode = "single_file" /\ it.files = {f}
           /\ \A f \in files : Cardinality({it \in items : f \in it.files}) <= 1
           /\ \A it \in items : it.files \subseteq audio
           /\ Len(ev.arg.result) = Cardinality(items)

(* The positive durations the two probes give for a file, as numbers *)
PositiveDurations(f) ==
    {d \in {7, 9} :
        LET text == IF d = 7 THEN "7" ELSE "9"
        IN \/ f.streams # "failed" /\ f.format_duration = text
           \/ f.duration_probe = text}

(* C30: validate_audio_file returns (True, "", d) with d > 0 exactly when the path
   is a file with a supported extension and a size above zero, the probe shows an
   audio stream, and the probe or the duration query gives a positive duration,
   which is d; in every other case it returns (False, a message, 0.0) *)
C30_ValidateAudioFile ==
    ev.act = "validate_audio_file" =>
        LET f == ev.arg.file
            r == ev.arg.result
            acceptable ==
                /\ f.kind = "file"
                /\ f.suffix \in {".m4b", ".M4A"}
                /\ f.size > 0
                /\ f.streams \in {"audio", "video+audio"}
                /\ PositiveDurations(f) # {}
        IN IF acceptable
             THEN r.ok /\ r.message = "" /\ r.duration > 0 /\ r.duration \in PositiveDurations(f)
             ELSE ~r.ok /\ r.message # "" /\ r.duration = 0

(* A file is accepted on the fallback duration: the validation probe shows audio
   next to a video stream but prints no usable duration *)
C30_Witness ==
    /\ ev.act = "validate_audio_file"
    /\ ev.arg.result.ok
    /\ ev.arg.file.streams = "video+audio"
    /\ ev.arg.file.format_duration = "N/A"
    /\ ev.arg.file.suffix = ".M4A"
    /\ ev.arg.result.duration = 7

(* A progress notification of a stage that was suspended while a restart or a
   cancel moved the pipeline to another step: the polling loop hands a queued
   entry to the callback, or the stage notifies by itself as it goes on *)
LateProgress ==
    /\ ev'.stale # "no"
    /\ \/ ev'.act = "poll"
       \/ ev'.act = "finish" /\ ev'.by # "stage_restart"

(* C31: a late progress notification leaves the pipeline step as it is and
   schedules no step-change broadcast *)
C31_LateProgressIsNoOp ==
    [][LateProgress => (pl'.step = pl.step /\ sent' = <<>>)]_vars

(* A partial scan has left chapter editing *)
PartialScanLeft == pl.step \in PartialScanSteps

(* The pipeline is back in chapter editing with the chapter list and the history
   it had, and the handle of the partial scan task is cleared *)
PartialScanBack ==
    /\ pl.step = CHAPTER_EDITING
    /\ pl.chapters = EditingPipeline.chapters
    /\ pl.history_stack = EditingPipeline.history_stack
    /\ pl.history_index = EditingPipeline.history_index
    /\ pl.tasks["partial_scan"] = "none"

(* C32: a partial scan that has left chapter editing eventually brings the
   pipeline back to chapter editing, chapters and history intact and the task
   handle cleared, however the scan ends *)
C32_PartialScanReturns == PartialScanLeft ~> PartialScanBack


(* C33: a restart is a rollback: when restart_at_step returns, the pipeline is at
   no later step of the pipeline order than the one it was in when the request
   arrived *)
C33_RestartIsRollback ==
    [][ev'.act = "restart_done" => StepOrdinal(pl'.step) <= StepOrdinal(rq.arrived)]_vars


(* No stage coroutine is running and no restart is under way *)
NoStageRunning == co.kind = "none" /\ rq.pc = "none"

(* C34: a tool process that runs is in _running_processes, and the list is empty
   whenever no stage is running: no thread registers a process after a
   cancellation has cleared the list *)
C34_ProcessListTracksProcesses ==
    /\ \A i \in 1..MaxProcs : procs[i].st = "running" => i \in pl.running_processes
    /\ NoStageRunning => pl.running_processes = {}


(* The extraction thread looks at the return code of the tool *)
ExtractionAttemptEnds == job.kind = "extract" /\ job.pc = "wait" /\ ev'.act = "reap"

(* C35: the re-encode retry starts exactly when the first attempt has failed
   without a cancellation; an attempt the supervisor has terminated or killed
   starts none, and a failed retry raises an error *)
C35_ExtractionRetriesOnce ==
    [][ExtractionAttemptEnds =>
         LET rc == procs[job.proc].rc
             failed == rc # RcOk /\ rc \notin {RcMissing, RcSignal} /\ ~job.cancelled
         IN /\ job'.pc = "spawn" <=> (job.held = 0 /\ failed)
            /\ (job.held # 0 /\ failed) => job'.result = "error"]_vars


(* The temp files partial scans create *)
PartialFiles == {PartialFile(k) : k \in 1..MaxScanned}

(* C36: when no partial scan is under way, no temp file of a partial scan is left
   in the temp directory and _partial_scan_temp_files is empty *)
C36_PartialScanFilesRemoved ==
    co.kind # "partial_scan" =>
        (disk \cap PartialFiles = {} /\ pl.partial_scan_temp_files = <<>>)


(* The start of y is at least 0.75 s away from the start of x *)
StartsApart(x, y) == 4 * Abs(x[1] - y[1]) >= 3

(* The new silences, of the first k, that are to be added: those whose start is at
   least 0.75 s away from every silence of the list and from every new silence
   added before *)
RECURSIVE AddedSilences(_, _, _)
AddedSilences(silences, new_silences, k) ==
    IF k = 0 THEN {}
    ELSE LET before == AddedSilences(silences, new_silences, k - 1)
         IN IF /\ \A i \in 1..Len(silences) : StartsApart(silences[i], new_silences[k])
               /\ \A j \in before : StartsApart(new_silences[j], new_silences[k])
              THEN before \cup {k} ELSE before

(* C37: the merge keeps every silence that was in detected_silences, adds a new
   silence exactly when its start is at least 0.75 s away from the start of every
   silence already in the list, and leaves the list sorted by start *)
C37_MergeKeepsAddsAndSorts ==
    ev.act = "merge_silences" =>
        LET a == ev.arg
            added == AddedSilences(a.silences, a.new_silences, Len(a.new_silences))
        IN /\ \A i \in 1..Len(a.silences) : \E j \in 1..Len(a.result) : a.result[j] = a.silences[i]
           /\ SeqToSet(a.result) = SeqToSet(a.silences) \cup {a.new_silences[k] : k \in added}
           /\ Len(a.result) = Len(a.silences) + Cardinality(added)
           /\ \A i \in 1..Len(a.result), j \in 1..Len(a.result) :
                 i < j => a.result[i][1] <= a.result[j][1]

(* A merge into a list that holds a silence: the first new silence is added in
   front of it, the second one is dropped for the first *)
C37_Witness ==
    /\ ev.act = "merge_silences"
    /\ Len(ev.arg.silences) > 0
    /\ Len(ev.arg.new_silences) = 2
    /\ ev.arg.new_silences[1][1] = ev.arg.new_silences[2][1]
    /\ ev.arg.new_silences[1][1] < ev.arg.silences[1][1]
    /\ Len(ev.arg.result) = Len(ev.arg.silences) + 1
    /\ ev.arg.result[1] = ev.arg.new_silences[1]


(* The steps in which a stage works and the user waits *)
ProcessingSteps ==
    {AUDIO_ANALYSIS, VAD_ANALYSIS, AUDIO_EXTRACTION, TRIMMING, ASR_PROCESSING, AI_CLEANUP}
        \cup PartialScanSteps

(* Nothing runs that could move the pipeline on: no stage coroutine, no worker
   thread, no restart under way, no tool process *)
NothingRuns ==
    /\ co.kind = "none" /\ job.kind = "none" /\ rq.pc = "none"
    /\ \A i \in 1..MaxProcs : procs[i].st # "running"

(* C38: no processing step is a dead end: the pipeline is never in a processing
   step while nothing runs that could bring it to an interactive step *)
C38_NoDeadEnd == (app /\ pl.step \in ProcessingSteps) => ~NothingRuns


(* The steps in which the pipeline waits for the user (models/enums.py) *)
InteractiveSteps ==
    {IDLE, SELECT_CUE_SOURCE, CUE_SET_SELECTION, CONFIGURE_ASR, CHAPTER_EDITING, REVIEWING,
     COMPLETED}

(* C40: in an interactive step with no stage running every task handle is empty *)
C40_NoTaskHandleLeft ==
    (pl.step \in InteractiveSteps /\ co.kind = "none" /\ job.kind = "none" /\ rq.pc = "none")
        => pl.tasks = NoTasks


(* C39: a fetch whose pipeline has been deleted causes no step-change broadcast,
   no progress broadcast and no post-fetch update, and the step reported stays
   idle as long as no new pipeline has been created *)
C39_DeletedFetchIsSilent ==
    [][ev'.by = "deleted_fetch" =>
         /\ sent' = <<>>
         /\ ~ev'.arg.progress
         /\ ~ev'.arg.book_update
         /\ ~app => AppStep' = IDLE]_vars

====
